---------------------------- MODULE Spec2Model ----------------------------
(***************************************************************************)
(* A model of the odds normalisation, cross-market matching and EV code of *)
(* kalshi-ev-finder.                                                       *)
(*                                                                         *)
(* Numbers.  Python floats are modelled by exact rationals [n, d] in       *)
(* lowest terms with d > 0.  Binary rounding error of IEEE doubles is      *)
(* modelled where it decides an integer result (int() in                   *)
(* _calculate_average_odds, as a choice between the two integers the       *)
(* rounding can give) and not elsewhere.  round(x, 4) is modelled as       *)
(* round-half-even to a multiple of 1/10000, int(x) as truncation toward   *)
(* zero.                                                                   *)
(*                                                                         *)
(* Spread and total lines are integers counted in half points              *)
(* (7 points = 14, 7.5 points = 15), so that "x - 0.5" is "x - 1" and      *)
(* "x % 1 == 0" is "x is even".                                            *)
(*                                                                         *)
(* Strings whose characters the code inspects (team names, codes, words)   *)
(* are sequences of one-character strings.                                 *)
(***************************************************************************)
EXTENDS Integers, Sequences, FiniteSets, TLC

VARIABLES
    codec_call,      \* the codec function applied and its arguments
    codec_ret,       \* what it returned
    ev_kalshi_markets,  \* EV path: what get_nfl_moneyline_markets delivers
    ev_raw_odds,        \* EV path: what get_nfl_odds delivers (None: fetch failed)
    ev_sportsbook_odds, \* EV path: the result of get_sportsbook_odds
    ev_opportunities,   \* EV path: what find_ev_opportunities returned or raised
    ev_pc,           \* EV path: "start", then "done"
    paper_call,      \* create_paper_trades: its arguments and the rows of its CSV
    main_ret,        \* main without a command: the Best EV it reported, or what it raised
    sportsbook_odds_xlsx,         \* sportsbook_odds.xlsx: None, or Some(rows)
    kalshi_all_markets_xlsx,     \* kalshi_all_markets.xlsx: None, or Some(rows)
    cc_ret,          \* create_comprehensive_raw_data: its Matched Pairs
    cc_non_matched,  \* create_comprehensive_raw_data: its Non-Matched Kalshi sheet
    dp_ret,          \* combine_all_data: its Raw Data sheet
    results_entry_sheet,  \* sheet 'Game Results Entry' of calibration_tracker.xlsx
    grading_pass     \* the last grading pass and the game report it was given

codec_vars == <<codec_call, codec_ret>>
ev_vars    == <<ev_kalshi_markets, ev_raw_odds, ev_sportsbook_odds, ev_opportunities, ev_pc,
               paper_call, main_ret>>
match_vars == <<sportsbook_odds_xlsx, kalshi_all_markets_xlsx, cc_ret, cc_non_matched, dp_ret,
               results_entry_sheet, grading_pass>>
vars       == <<codec_vars, ev_vars, match_vars>>

---------------------------------------------------------------------------
(* Bounds of the model.                                                    *)

MaxOdds == 250
MaxEvMarkets == 2
MaxEvBooks == 2
MaxSbRows == 4
MaxKalshiMarkets == 1

---------------------------------------------------------------------------
(* Exact rational arithmetic standing for Python float arithmetic.         *)

Abs(x) == IF x < 0 THEN -x ELSE x

RECURSIVE GCD(_, _)
GCD(a, b) == IF b = 0 THEN a ELSE GCD(b, a % b)

Rat(n, d) ==
    LET s == IF d < 0 THEN -1 ELSE 1
        g == GCD(Abs(n), Abs(d))
    IN  [n |-> (s * n) \div g, d |-> (s * d) \div g]

Int2Rat(i) == [n |-> i, d |-> 1]
RatAdd(a, b) == Rat(a.n * b.d + b.n * a.d, a.d * b.d)
RatSub(a, b) == Rat(a.n * b.d - b.n * a.d, a.d * b.d)
RatMul(a, b) == Rat(a.n * b.n, a.d * b.d)
RatDiv(a, b) == Rat(a.n * b.d, a.d * b.n)
RatNeg(a)    == [n |-> -a.n, d |-> a.d]
RatLt(a, b)  == a.n * b.d < b.n * a.d
RatLe(a, b)  == a.n * b.d <= b.n * a.d
RatGt(a, b)  == RatLt(b, a)

Zero == Int2Rat(0)
One  == Int2Rat(1)
Half == Rat(1, 2)

(* int(x): truncation toward zero.                                         *)
Trunc(a) == IF a.n >= 0 THEN a.n \div a.d ELSE -((-a.n) \div a.d)

(* floor(n/d * 10^k) and the remainder, digit by digit, for n, d >= 0.     *)
RECURSIVE ScaledFloor(_, _, _)
ScaledFloor(n, d, k) ==
    IF k = 0 THEN [q |-> n \div d, r |-> n % d]
    ELSE LET p == ScaledFloor(n, d, k - 1)
         IN  [q |-> p.q * 10 + (p.r * 10) \div d, r |-> (p.r * 10) % d]

(* round(x, 4): the nearest multiple of 1/10000, ties to the even one.     *)
Round4(a) ==
    LET p  == ScaledFloor(Abs(a.n), a.d, 4)
        up == \/ 2 * p.r > a.d
              \/ 2 * p.r = a.d /\ p.q % 2 = 1
        m  == IF up THEN p.q + 1 ELSE p.q
    IN  Rat(IF a.n < 0 THEN -m ELSE m, 10000)

---------------------------------------------------------------------------
(* Probability codec: ev_calculator.py and odds_fetcher.py.                *)

(* What a Python call does: it returns a value or raises.                  *)
Returned(v) == [raised |-> "none", value |-> v]
Raised(e)   == [raised |-> e, value |-> Zero]

(* two steps in sequence, each adding rows: the first exception ends the   *)
(* run, otherwise the rows are concatenated                                *)
Then(first, rest) ==
    IF first.raised # "none" THEN first
    ELSE IF rest.raised # "none" THEN rest
    ELSE Returned(first.value \o rest.value)

(* a file after a call that returns its new content: unchanged when the    *)
(* call raised                                                             *)
FileAfter(file, ret) == IF ret.raised = "none" THEN ret.value ELSE file

american_to_probability(odds) ==
    IF odds > 0
    THEN Rat(100, odds + 100)
    ELSE Rat(Abs(odds), Abs(odds) + 100)

(* a variant that forgets to divide by the total                           *)
remove_vig_from_odds_unscaled(team_odds, opponent_odds) ==
    LET team_implied     == american_to_probability(team_odds)
        opponent_implied == american_to_probability(opponent_odds)
        total_implied    == RatAdd(team_implied, opponent_implied)
    IN  [true_probability |-> team_implied,
         raw_probability  |-> team_implied,
         vig_percent      |-> IF RatGt(total_implied, One)
                              THEN RatMul(RatSub(total_implied, One), Int2Rat(100))
                              ELSE Zero,
         total_implied    |-> total_implied]

remove_vig_from_odds(team_odds, opponent_odds) ==
    LET team_implied     == american_to_probability(team_odds)
        opponent_implied == american_to_probability(opponent_odds)
        total_implied    == RatAdd(team_implied, opponent_implied)
    IN  IF RatGt(total_implied, One)
        THEN [true_probability |-> RatDiv(team_implied, total_implied),
              raw_probability  |-> team_implied,
              vig_percent      |-> RatMul(RatSub(total_implied, One), Int2Rat(100)),
              total_implied    |-> total_implied]
        ELSE [true_probability |-> team_implied,
              raw_probability  |-> team_implied,
              vig_percent      |-> Zero,
              total_implied    |-> total_implied]

RECURSIVE SumRat(_)
SumRat(s) == IF s = <<>> THEN Zero ELSE RatAdd(Head(s), SumRat(Tail(s)))

(* a variant that takes the underdog branch only below... never at 0.5:   *)
(* the favourite branch is entered at avg_prob > 0.5 only and the         *)
(* underdog formula is inverted                                           *)
probability_to_odds_inverted(avg_prob) ==
    IF RatGt(avg_prob, Half)
    THEN IF avg_prob = One
         THEN Raised("ZeroDivisionError")
         ELSE Returned(RatMul(RatDiv(RatNeg(avg_prob), RatSub(One, avg_prob)),
                              Int2Rat(100)))
    ELSE IF avg_prob = One
         THEN Raised("ZeroDivisionError")
         ELSE Returned(RatMul(RatDiv(avg_prob, RatSub(One, avg_prob)),
                              Int2Rat(100)))

(* The probability-to-odds branch of _calculate_average_odds: the value   *)
(* handed to int(), or the exception of the division.                     *)
probability_to_odds(avg_prob) ==
    IF RatLe(Half, avg_prob)
    THEN IF avg_prob = One
         THEN Raised("ZeroDivisionError")
         ELSE Returned(RatMul(RatDiv(RatNeg(avg_prob), RatSub(One, avg_prob)),
                              Int2Rat(100)))
    ELSE IF avg_prob = Zero
         THEN Raised("ZeroDivisionError")
         ELSE Returned(RatMul(RatDiv(RatSub(One, avg_prob), avg_prob),
                              Int2Rat(100)))

(* The average probability of a non-empty odds list.                      *)
average_probability(odds_list) ==
    LET probabilities == [i \in 1..Len(odds_list) |->
                             IF odds_list[i] > 0
                             THEN Rat(100, odds_list[i] + 100)
                             ELSE Rat(Abs(odds_list[i]), Abs(odds_list[i]) + 100)]
    IN  RatDiv(SumRat(probabilities), Int2Rat(Len(probabilities)))

(* int(x) applied to the outcome of the conversion, in exact arithmetic.  *)
int_of(ret) ==
    IF ret.raised # "none" THEN ret ELSE Returned(Trunc(ret.value))

_calculate_average_odds(odds_list) ==
    IF odds_list = <<>>
    THEN Returned(0)
    ELSE int_of(probability_to_odds(average_probability(odds_list)))

(* A rational is a double exactly when its denominator is a power of two  *)
(* (the numerators of this model are far below 2^53).                     *)
RECURSIVE IsPowerOfTwo(_)
IsPowerOfTwo(d) == d = 1 \/ (d > 1 /\ d % 2 = 0 /\ IsPowerOfTwo(d \div 2))

(* int(x) of the double the code computes.  Where the exact value of x is *)
(* a non-zero integer n and the average probability is not a double, the  *)
(* computed x may fall just short of n in magnitude, and int() then gives *)
(* n less one toward zero; which of the two a given input takes is the    *)
(* rounding of the binary divisions, and is left open here.               *)
int_of_double(ret, avg_prob) ==
    IF ret.raised # "none"
    THEN {ret}
    ELSE {Returned(Trunc(ret.value))}
         \cup IF ret.value.d = 1 /\ ret.value.n # 0 /\ ~IsPowerOfTwo(avg_prob.d)
               THEN {Returned(IF ret.value.n > 0 THEN ret.value.n - 1
                                                 ELSE ret.value.n + 1)}
               ELSE {}

(* The returns _calculate_average_odds can give in double arithmetic.     *)
_calculate_average_odds_double(odds_list) ==
    IF odds_list = <<>>
    THEN {Returned(0)}
    ELSE int_of_double(probability_to_odds(average_probability(odds_list)),
                       average_probability(odds_list))

---------------------------------------------------------------------------
(* Python values: None / NaN, and strings as character sequences.          *)

None    == [isNone |-> TRUE]
Some(v) == [isNone |-> FALSE, val |-> v]

(* a == b on two cells of a data frame: a missing cell (NaN) equals nothing *)
CellEq(a, b) == ~a.isNone /\ ~b.isNone /\ a.val = b.val

UpperChars == <<"A","B","C","D","E","F","G","H","I","J","K","L","M",
                "N","O","P","Q","R","S","T","U","V","W","X","Y","Z">>
LowerChars == <<"a","b","c","d","e","f","g","h","i","j","k","l","m",
                "n","o","p","q","r","s","t","u","v","w","x","y","z">>

LowerChar(c) ==
    IF \E i \in 1..26 : UpperChars[i] = c
    THEN LowerChars[CHOOSE i \in 1..26 : UpperChars[i] = c]
    ELSE c

Lower(s) == [i \in 1..Len(s) |-> LowerChar(s[i])]

(* needle in hay                                                           *)
Contains(hay, needle) ==
    \E i \in 1..(Len(hay) - Len(needle) + 1) :
        SubSeq(hay, i, i + Len(needle) - 1) = needle

(* Series.str.contains(needle, case=False) for a needle of letters/digits  *)
ContainsNoCase(hay, needle) == Contains(Lower(hay), Lower(needle))

(* str.split(): the words between runs of blanks                           *)
RECURSIVE SplitFrom(_, _, _)
SplitFrom(s, i, cur) ==
    IF i > Len(s)
    THEN IF cur = <<>> THEN <<>> ELSE <<cur>>
    ELSE IF s[i] = " "
         THEN IF cur = <<>>
              THEN SplitFrom(s, i + 1, <<>>)
              ELSE <<cur>> \o SplitFrom(s, i + 1, <<>>)
         ELSE SplitFrom(s, i + 1, Append(cur, s[i]))

Split(s) == SplitFrom(s, 1, <<>>)

(* dict.get(key, default) on a dict given as a set of <<key, value>>       *)
DictGet(dict, key, default) ==
    IF \E p \in dict : p[1] = key
    THEN (CHOOSE p \in dict : p[1] = key)[2]
    ELSE default

(* str.split(sep) for a one-character separator: empty parts are kept     *)
RECURSIVE SplitOnFrom(_, _, _, _)
SplitOnFrom(s, sep, i, cur) ==
    IF i > Len(s) THEN <<cur>>
    ELSE IF s[i] = sep
         THEN <<cur>> \o SplitOnFrom(s, sep, i + 1, <<>>)
         ELSE SplitOnFrom(s, sep, i + 1, Append(cur, s[i]))

SplitOn(s, sep) == SplitOnFrom(s, sep, 1, <<>>)

(* s.split(needle)[-1]: what follows the last occurrence of needle in s    *)
AfterLast(s, needle) ==
    LET starts == {i \in 1..(Len(s) - Len(needle) + 1) :
                      SubSeq(s, i, i + Len(needle) - 1) = needle}
    IN  IF starts = {} THEN s
        ELSE LET last == CHOOSE i \in starts : \A j \in starts : j <= i
             IN  SubSeq(s, last + Len(needle), Len(s))

Digits == <<"0","1","2","3","4","5","6","7","8","9">>
IsDigit(c) == \E i \in 1..10 : Digits[i] = c

RECURSIVE DecimalVal(_)
DecimalVal(ds) ==
    IF ds = <<>> THEN 0
    ELSE 10 * DecimalVal(SubSeq(ds, 1, Len(ds) - 1))
         + (CHOOSE i \in 1..10 : Digits[i] = ds[Len(ds)]) - 1

(* float(s) of a text of digits with at most one '.', in half-points; any  *)
(* other text makes float() raise ValueError, given here as None.  Lines   *)
(* are multiples of 0.5, so the fraction is empty, "0" or "5".             *)
ParseFloat(s) ==
    LET parts == SplitOn(s, ".")
        whole == parts[1]
        frac  == IF Len(parts) = 2 THEN parts[2] ELSE <<>>
        AllDigits(t) == \A i \in 1..Len(t) : IsDigit(t[i])
    IN  IF /\ Len(parts) <= 2
           /\ AllDigits(whole) /\ AllDigits(frac)
           /\ Len(whole) + Len(frac) > 0
           /\ frac \in {<<>>, <<"0">>, <<"5">>}
        THEN Some(2 * DecimalVal(whole) + (IF frac = <<"5">> THEN 1 ELSE 0))
        ELSE None

(* re.match(r'\d{2}[A-Z]{3}\d{2}', game_part): the end of the match, or 0  *)
date_match_end(game_part) ==
    IF /\ Len(game_part) >= 7
       /\ \A i \in {1, 2, 6, 7} : IsDigit(game_part[i])
       /\ \A i \in {3, 4, 5} : \E u \in 1..26 : UpperChars[u] = game_part[i]
    THEN 7 ELSE 0

---------------------------------------------------------------------------
(* The static team tables.                                                 *)

team_mapping_full == {
    <<<<"A","R","I">>,
      <<"A","r","i","z","o","n","a"," ","C","a","r","d","i","n","a","l","s">>>>,
    <<<<"A","T","L">>,
      <<"A","t","l","a","n","t","a"," ","F","a","l","c","o","n","s">>>>,
    <<<<"B","A","L">>,
      <<"B","a","l","t","i","m","o","r","e"," ","R","a","v","e","n","s">>>>,
    <<<<"B","U","F">>,
      <<"B","u","f","f","a","l","o"," ","B","i","l","l","s">>>>,
    <<<<"C","A","R">>,
      <<"C","a","r","o","l","i","n","a"," ","P","a","n","t","h","e","r","s">>>>,
    <<<<"C","H","I">>,
      <<"C","h","i","c","a","g","o"," ","B","e","a","r","s">>>>,
    <<<<"C","I","N">>,
      <<"C","i","n","c","i","n","n","a","t","i"," ","B","e","n","g","a","l","s">>>>,
    <<<<"C","L","E">>,
      <<"C","l","e","v","e","l","a","n","d"," ","B","r","o","w","n","s">>>>,
    <<<<"D","A","L">>,
      <<"D","a","l","l","a","s"," ","C","o","w","b","o","y","s">>>>,
    <<<<"D","E","N">>,
      <<"D","e","n","v","e","r"," ","B","r","o","n","c","o","s">>>>,
    <<<<"D","E","T">>,
      <<"D","e","t","r","o","i","t"," ","L","i","o","n","s">>>>,
    <<<<"G","B">>,
      <<"G","r","e","e","n"," ","B","a","y"," ","P","a","c","k","e","r","s">>>>,
    <<<<"H","O","U">>,
      <<"H","o","u","s","t","o","n"," ","T","e","x","a","n","s">>>>,
    <<<<"I","N","D">>,
      <<"I","n","d","i","a","n","a","p","o","l","i","s"," ","C","o","l","t","s">>>>,
    <<<<"J","A","C">>,
      <<"J","a","c","k","s","o","n","v","i","l","l","e"," ","J","a","g","u","a","r","s">>>>,
    <<<<"K","C">>,
      <<"K","a","n","s","a","s"," ","C","i","t","y"," ","C","h","i","e","f","s">>>>,
    <<<<"L","V">>,
      <<"L","a","s"," ","V","e","g","a","s"," ","R","a","i","d","e","r","s">>>>,
    <<<<"L","A","C">>,
      <<"L","o","s"," ","A","n","g","e","l","e","s"," ","C","h","a","r","g","e","r","s">>>>,
    <<<<"L","A","R">>,
      <<"L","o","s"," ","A","n","g","e","l","e","s"," ","R","a","m","s">>>>,
    <<<<"L","A">>,
      <<"L","o","s"," ","A","n","g","e","l","e","s"," ","R","a","m","s">>>>,
    <<<<"M","I","A">>,
      <<"M","i","a","m","i"," ","D","o","l","p","h","i","n","s">>>>,
    <<<<"M","I","N">>,
      <<"M","i","n","n","e","s","o","t","a"," ","V","i","k","i","n","g","s">>>>,
    <<<<"N","E">>,
      <<"N","e","w"," ","E","n","g","l","a","n","d"," ","P","a","t","r","i","o","t","s">>>>,
    <<<<"N","O">>,
      <<"N","e","w"," ","O","r","l","e","a","n","s"," ","S","a","i","n","t","s">>>>,
    <<<<"N","Y","G">>,
      <<"N","e","w"," ","Y","o","r","k"," ","G","i","a","n","t","s">>>>,
    <<<<"N","Y","J">>,
      <<"N","e","w"," ","Y","o","r","k"," ","J","e","t","s">>>>,
    <<<<"P","H","I">>,
      <<"P","h","i","l","a","d","e","l","p","h","i","a"," ","E","a","g","l","e","s">>>>,
    <<<<"P","I","T">>,
      <<"P","i","t","t","s","b","u","r","g","h"," ","S","t","e","e","l","e","r","s">>>>,
    <<<<"S","F">>,
      <<"S","a","n"," ","F","r","a","n","c","i","s","c","o"," ","4","9","e","r","s">>>>,
    <<<<"S","E","A">>,
      <<"S","e","a","t","t","l","e"," ","S","e","a","h","a","w","k","s">>>>,
    <<<<"T","B">>,
      <<"T","a","m","p","a"," ","B","a","y"," ","B","u","c","c","a","n","e","e","r","s">>>>,
    <<<<"T","E","N">>,
      <<"T","e","n","n","e","s","s","e","e"," ","T","i","t","a","n","s">>>>,
    <<<<"W","A","S">>,
      <<"W","a","s","h","i","n","g","t","o","n"," ","C","o","m","m","a","n","d","e","r","s">>>>
}

abbrev_to_keyword == {
    <<<<"C","I","N">>,
      <<"C","i","n","c","i","n","n","a","t","i">>>>,
    <<<<"D","E","N">>,
      <<"D","e","n","v","e","r">>>>,
    <<<<"N","Y","J">>,
      <<"N","e","w"," ","Y","o","r","k">>>>,
    <<<<"M","I","A">>,
      <<"M","i","a","m","i">>>>,
    <<<<"G","B">>,
      <<"G","r","e","e","n"," ","B","a","y">>>>,
    <<<<"D","A","L">>,
      <<"D","a","l","l","a","s">>>>,
    <<<<"K","C">>,
      <<"K","a","n","s","a","s"," ","C","i","t","y">>>>,
    <<<<"L","A","R">>,
      <<"L","o","s"," ","A","n","g","e","l","e","s">>>>,
    <<<<"B","U","F">>,
      <<"B","u","f","f","a","l","o">>>>,
    <<<<"B","A","L">>,
      <<"B","a","l","t","i","m","o","r","e">>>>,
    <<<<"P","I","T">>,
      <<"P","i","t","t","s","b","u","r","g","h">>>>,
    <<<<"C","L","E">>,
      <<"C","l","e","v","e","l","a","n","d">>>>,
    <<<<"N","E">>,
      <<"N","e","w"," ","E","n","g","l","a","n","d">>>>,
    <<<<"T","B">>,
      <<"T","a","m","p","a"," ","B","a","y">>>>,
    <<<<"A","T","L">>,
      <<"A","t","l","a","n","t","a">>>>,
    <<<<"C","A","R">>,
      <<"C","a","r","o","l","i","n","a">>>>,
    <<<<"N","O">>,
      <<"N","e","w"," ","O","r","l","e","a","n","s">>>>,
    <<<<"M","I","N">>,
      <<"M","i","n","n","e","s","o","t","a">>>>,
    <<<<"D","E","T">>,
      <<"D","e","t","r","o","i","t">>>>,
    <<<<"C","H","I">>,
      <<"C","h","i","c","a","g","o">>>>,
    <<<<"L","A","C">>,
      <<"L","o","s"," ","A","n","g","e","l","e","s">>>>,
    <<<<"L","V">>,
      <<"L","a","s"," ","V","e","g","a","s">>>>,
    <<<<"A","R","I">>,
      <<"A","r","i","z","o","n","a">>>>,
    <<<<"S","F">>,
      <<"S","a","n"," ","F","r","a","n","c","i","s","c","o">>>>,
    <<<<"S","E","A">>,
      <<"S","e","a","t","t","l","e">>>>,
    <<<<"H","O","U">>,
      <<"H","o","u","s","t","o","n">>>>,
    <<<<"I","N","D">>,
      <<"I","n","d","i","a","n","a","p","o","l","i","s">>>>,
    <<<<"J","A","X">>,
      <<"J","a","c","k","s","o","n","v","i","l","l","e">>>>,
    <<<<"T","E","N">>,
      <<"T","e","n","n","e","s","s","e","e">>>>,
    <<<<"W","A","S">>,
      <<"W","a","s","h","i","n","g","t","o","n">>>>,
    <<<<"N","Y","G">>,
      <<"N","e","w"," ","Y","o","r","k">>>>,
    <<<<"P","H","I">>,
      <<"P","h","i","l","a","d","e","l","p","h","i","a">>>>
}

three_letter_teams == {
    <<"B","A","L">>,
    <<"C","A","R">>,
    <<"C","I","N">>,
    <<"C","L","E">>,
    <<"D","E","N">>,
    <<"D","E","T">>,
    <<"H","O","U">>,
    <<"I","N","D">>,
    <<"J","A","C">>,
    <<"M","I","A">>,
    <<"M","I","N">>,
    <<"N","Y","G">>,
    <<"N","Y","J">>,
    <<"P","H","I">>,
    <<"P","I","T">>,
    <<"S","E","A">>,
    <<"T","E","N">>,
    <<"W","A","S">>,
    <<"A","R","I">>,
    <<"A","T","L">>,
    <<"B","U","F">>,
    <<"C","H","I">>,
    <<"D","A","L">>,
    <<"L","A","C">>,
    <<"L","A","R">>
}

UNK == <<"U","N","K">>

_convert_team_abbrev_to_full(abbrev) == DictGet(team_mapping_full, abbrev, abbrev)

---------------------------------------------------------------------------
(* Sportsbook collector: odds_api_collector.py.                            *)
(* An outcome is [name, price, point]; point is None when the feed gives   *)
(* none.  A market is [key, outcomes].  ctx holds the game's fields.       *)

outcome_prob(american_odds) ==
    IF american_odds > 0
    THEN Rat(100, american_odds + 100)
    ELSE Rat(Abs(american_odds), Abs(american_odds) + 100)

market_probs(outcomes) ==
    [i \in 1..Len(outcomes) |-> outcome_prob(outcomes[i].price)]

(* outcome.get('point', 0)                                                 *)
outcome_point(outcome) == IF outcome.point.isNone THEN Some(0) ELSE outcome.point

sportsbook_row(ctx, bet_type, outcome, raw_prob, adj_prob, vig, spread_line, total_line) ==
    [game_id              |-> ctx.game_id,
     away_team            |-> ctx.away_team,
     home_team            |-> ctx.home_team,
     game_time            |-> ctx.game_time,
     sport                |-> ctx.sport,
     bet_type             |-> bet_type,
     bookmaker            |-> ctx.bm_name,
     team                 |-> outcome.name,
     american_odds        |-> outcome.price,
     implied_prob_raw     |-> Round4(raw_prob),
     implied_prob_vig_adj |-> Round4(adj_prob),
     market_vig           |-> Round4(vig),
     spread_line          |-> spread_line,
     total_line           |-> total_line,
     result               |-> None]

_process_moneyline_market(market, ctx) ==
    LET outcomes   == market.outcomes
        probs      == market_probs(outcomes)
        total_prob == SumRat(probs)
        vig        == RatSub(total_prob, One)
    IN  IF Len(outcomes) = 2
        THEN IF total_prob = Zero
             THEN Raised("ZeroDivisionError")
             ELSE Returned([i \in 1..2 |->
                     sportsbook_row(ctx, "moneyline", outcomes[i], probs[i],
                                    RatDiv(probs[i], total_prob), vig, None, None)])
        ELSE Returned(<<>>)

_process_spread_market(market, ctx) ==
    LET outcomes   == market.outcomes
        probs      == market_probs(outcomes)
        total_prob == SumRat(probs)
        vig        == RatSub(total_prob, One)
    IN  IF Len(outcomes) = 2
        THEN IF total_prob = Zero
             THEN Raised("ZeroDivisionError")
             ELSE Returned([i \in 1..2 |->
                     sportsbook_row(ctx, "spread", outcomes[i], probs[i],
                                    RatDiv(probs[i], total_prob), vig,
                                    outcome_point(outcomes[i]), None)])
        ELSE Returned(<<>>)

_process_totals_market(market, ctx) ==
    LET outcomes   == market.outcomes
        probs      == market_probs(outcomes)
        total_prob == SumRat(probs)
        vig        == RatSub(total_prob, One)
    IN  IF Len(outcomes) = 2
        THEN IF total_prob = Zero
             THEN Raised("ZeroDivisionError")
             ELSE Returned([i \in 1..2 |->
                     sportsbook_row(ctx, "total", outcomes[i], probs[i],
                                    RatDiv(probs[i], total_prob), vig,
                                    None, outcome_point(outcomes[i]))])
        ELSE Returned(<<>>)

(* One bookmaker's market of one game, as _process_game_all_markets        *)
(* dispatches it; a market of another key adds no rows.                    *)
_process_game_all_markets(market, ctx) ==
    IF market.key = "h2h" THEN _process_moneyline_market(market, ctx)
    ELSE IF market.key = "spreads" THEN _process_spread_market(market, ctx)
    ELSE IF market.key = "totals" THEN _process_totals_market(market, ctx)
    ELSE Returned(<<>>)

(* lines 90-116 of _process_game_all_markets: the rows of a bookmaker's    *)
(* markets, then of a game's bookmakers                                    *)
RECURSIVE bookmaker_rows(_, _)
bookmaker_rows(markets, ctx) ==
    IF markets = <<>> THEN Returned(<<>>)
    ELSE Then(_process_game_all_markets(Head(markets), ctx),
              bookmaker_rows(Tail(markets), ctx))

RECURSIVE game_rows(_, _)
game_rows(bookmakers, game) ==
    IF bookmakers = <<>> THEN Returned(<<>>)
    ELSE Then(bookmaker_rows(Head(bookmakers).markets,
                             [game_id |-> game.id, away_team |-> game.away_team,
                              home_team |-> game.home_team,
                              game_time |-> game.commence_time, sport |-> "nfl",
                              bm_name |-> Head(bookmakers).key]),
              game_rows(Tail(bookmakers), game))

RECURSIVE all_game_rows(_)
all_game_rows(games) ==
    IF games = <<>> THEN Returned(<<>>)
    ELSE Then(game_rows(Head(games).bookmakers, Head(games)),
              all_game_rows(Tail(games)))

(* _save_odds_data: the rows are appended to the file's rows; all_rows is  *)
(* what the loops returned, an exception among them passes through         *)
_save_odds_data(data_file, all_rows) ==
    IF all_rows.raised # "none" THEN all_rows
    ELSE IF all_rows.value = <<>> THEN Returned(data_file)
    ELSE IF data_file.isNone THEN Returned(Some(all_rows.value))
    ELSE Returned(Some(data_file.val \o all_rows.value))

(* collect_all_markets on the games the request returned (None: the        *)
(* request failed): the file afterwards, or the exception raised           *)
collect_all_markets(data_file, games) ==
    IF games.isNone THEN Returned(data_file)
    ELSE _save_odds_data(data_file, all_game_rows(games.val))

---------------------------------------------------------------------------
(* Kalshi collection: nfl_markets.collect_all_kalshi_markets_to_excel.     *)
(* A market is [ticker, title, yes_bid, yes_ask]; the ticker is a          *)
(* character sequence.  A title is given by what the two searches draw     *)
(* from it: team is the run of words before ' wins by over', line is the   *)
(* number before 'points' (None when the search fails or the title is      *)
(* empty), over tells 'over' from 'under'.                                 *)

Chars_TOTAL == <<"T","O","T","A","L","-">>
Chars_total == <<"t","o","t","a","l">>

(* lines 262-303: game_part, away_team, home_team from the ticker          *)
ticker_game(ticker) ==
    LET ticker_parts == SplitOn(ticker, "-")
        game_part    == ticker_parts[2]
        teams_part   == SubSeq(game_part, date_match_end(game_part) + 1, Len(game_part))
        unknown(g)   == [game_part |-> g, away_team |-> UNK, home_team |-> UNK]
        split_at(k)  == [game_part |-> game_part,
                         away_team |-> SubSeq(teams_part, 1, k),
                         home_team |-> SubSeq(teams_part, k + 1, Len(teams_part))]
    IN  IF Len(ticker_parts) < 2 THEN unknown(UNK)
        ELSE IF Len(game_part) < 9 \/ date_match_end(game_part) = 0
             THEN unknown(game_part)
        ELSE IF Len(teams_part) = 5
             THEN IF SubSeq(teams_part, 1, 3) \in three_letter_teams
                  THEN split_at(3) ELSE split_at(2)
        ELSE IF Len(teams_part) = 6 THEN split_at(3)
        ELSE unknown(game_part)

(* lines 306-334: line_value and team of the market                        *)
market_line_team(market_type, market) ==
    LET ticker_parts == SplitOn(market.ticker, "-")
    IN  IF market_type = "spread"
        THEN [team |-> market.title.team, line_value |-> market.title.line]
        ELSE IF market_type = "total"
        THEN [team |-> Some(Chars_total),
              line_value |-> IF Contains(market.ticker, Chars_TOTAL)
                             THEN ParseFloat(AfterLast(market.ticker, Chars_TOTAL))
                             ELSE None]
        ELSE IF market_type = "moneyline"
        THEN [team |-> IF Len(ticker_parts) >= 3 THEN Some(ticker_parts[3])
                       ELSE Some(UNK),
              line_value |-> None]
        ELSE [team |-> None, line_value |-> None]

(* lines 260-405: the rows one market adds, or the exception it raises     *)
(* (str.replace(None, ...) when a spread title names no team)              *)
kalshi_market_rows(market_type, market) ==
    LET ticker_parts   == SplitOn(market.ticker, "-")
        game           == ticker_game(market.ticker)
        lt             == market_line_team(market_type, market)
        away_team_full == _convert_team_abbrev_to_full(game.away_team)
        home_team_full == _convert_team_abbrev_to_full(game.home_team)
        yes_price      == IF market.yes_bid = 0 THEN 50 ELSE market.yes_bid
        kalshi_probability == Rat(yes_price, 100)
        has_no         == market_type \in {"spread", "total"}
        yes_row == [series_ticker |-> ticker_parts[1],
                    ticker |-> market.ticker,
                    title |-> market.title,
                    bet_type |-> market_type,
                    game_id |-> game.game_part,
                    away_team |-> away_team_full,
                    home_team |-> home_team_full,
                    team |-> lt.team,
                    side |-> IF has_no THEN "Yes" ELSE "ML",
                    line_value |-> lt.line_value,
                    kalshi_probability |-> kalshi_probability,
                    yes_bid |-> market.yes_bid,
                    yes_ask |-> market.yes_ask]
        opposing_team == IF market_type = "spread"
                         THEN IF lt.team = Some(away_team_full)
                              THEN home_team_full ELSE away_team_full
                         ELSE Chars_total
        no_row == [yes_row EXCEPT
                    !.ticker = market.ticker \o <<"-","N","O">>,
                    !.title = IF market_type = "spread"
                              THEN [@ EXCEPT !.team = Some(opposing_team), !.over = FALSE]
                              ELSE [@ EXCEPT !.over = FALSE],
                    !.team = Some(opposing_team),
                    !.side = "No",
                    !.kalshi_probability = RatSub(One, kalshi_probability),
                    !.yes_bid = 100 - market.yes_ask,
                    !.yes_ask = 100 - market.yes_bid]
    IN  IF ~has_no THEN Returned(<<yes_row>>)
        ELSE IF market_type = "spread" /\ lt.team.isNone THEN Raised("TypeError")
        ELSE Returned(<<yes_row, no_row>>)

(* the rows of a list of markets of one type                               *)
RECURSIVE kalshi_type_rows(_, _)
kalshi_type_rows(market_type, markets) ==
    IF markets = <<>> THEN Returned(<<>>)
    ELSE Then(kalshi_market_rows(market_type, Head(markets)),
              kalshi_type_rows(market_type, Tail(markets)))

(* all_markets is the list of <<market_type, markets>> in the order of    *)
(* the dict get_nfl_all_markets built                                     *)
RECURSIVE kalshi_all_rows(_)
kalshi_all_rows(all_markets) ==
    IF all_markets = <<>> THEN Returned(<<>>)
    ELSE Then(kalshi_type_rows(Head(all_markets)[1], Head(all_markets)[2]),
              kalshi_all_rows(Tail(all_markets)))

(* lines 243-421: the file afterwards (it is overwritten when there are    *)
(* rows), or the exception raised                                          *)
(* a cell holding the empty string is written as an empty cell and read   *)
(* back as NaN                                                             *)
excel_cell(cell) == IF cell = Some(<<>>) THEN None ELSE cell

save_kalshi_rows(data_file, all_rows) ==
    IF all_rows.raised # "none" THEN all_rows
    ELSE IF all_rows.value # <<>>
         THEN Returned(Some([i \in 1..Len(all_rows.value) |->
                  [all_rows.value[i] EXCEPT !.team = excel_cell(@)]]))
    ELSE Returned(data_file)

collect_all_kalshi_markets_to_excel(data_file, all_markets) ==
    IF all_markets = <<>> THEN Returned(data_file)
    ELSE save_kalshi_rows(data_file, kalshi_all_rows(all_markets))

---------------------------------------------------------------------------
(* create_comprehensive_raw_data.py.  Row_ID of a row is its position in   *)
(* the frame read from the file.  Lines are in half-points.                *)

(* Row_IDs in ascending order: a selection keeps the order of the frame    *)
RECURSIVE Ascending(_)
Ascending(ids) ==
    IF ids = {} THEN <<>>
    ELSE LET first == CHOOSE i \in ids : \A j \in ids : i <= j
         IN  <<first>> \o Ascending(ids \ {first})


(* lines 34-71                                                             *)
cc_moneyline_matches(kalshi_row, sb_df) ==
    LET kalshi_team == kalshi_row.team.val
        keyword     == DictGet(abbrev_to_keyword, kalshi_team, kalshi_team)
        target_team == IF Contains(kalshi_row.away_team, keyword)
                       THEN kalshi_row.away_team ELSE kalshi_row.home_team
        kalshi_team_words == Split(kalshi_team)
        SameGame(sb) == /\ sb.bet_type = "moneyline"
                        /\ sb.away_team = kalshi_row.away_team
                        /\ sb.home_team = kalshi_row.home_team
        Short(sb) == SameGame(sb) /\ sb.team = target_team
        Long(sb)  == /\ SameGame(sb)
                     /\ \/ kalshi_team_words = <<>>
                        \/ \E w \in 1..Len(kalshi_team_words) :
                              ContainsNoCase(sb.team, kalshi_team_words[w])
    IN  IF Len(kalshi_team) <= 3 THEN Ascending({i \in 1..Len(sb_df) : Short(sb_df[i])}) ELSE Ascending({i \in 1..Len(sb_df) : Long(sb_df[i])})

(* lines 79-89: the sportsbook line of a Kalshi spread line                *)
cc_spread_line(kalshi_line, side) ==
    LET converted_line == IF kalshi_line % 2 = 0 THEN kalshi_line - 1 ELSE kalshi_line
    IN  IF side = "Yes" THEN -converted_line ELSE converted_line

(* lines 73-98; a missing line_value is read back as NaN and equals no line *)
cc_spread_matches(kalshi_row, sb_df) ==
    LET kalshi_line == kalshi_row.line_value
        sportsbook_line == IF kalshi_line.isNone THEN None
                           ELSE Some(cc_spread_line(kalshi_line.val, kalshi_row.side))
        Test(sb) == /\ sb.bet_type = "spread"
                    /\ sb.away_team = kalshi_row.away_team
                    /\ sb.home_team = kalshi_row.home_team
                    /\ CellEq(sb.spread_line, sportsbook_line)
    IN  Ascending({i \in 1..Len(sb_df) : Test(sb_df[i])})

(* lines 100-113                                                           *)
cc_total_matches(kalshi_row, sb_df) ==
    LET kalshi_total == kalshi_row.line_value
        sportsbook_total == IF kalshi_total.isNone THEN None
                            ELSE Some(kalshi_total.val - 1)
        Test(sb) == /\ sb.bet_type = "total"
                    /\ sb.away_team = kalshi_row.away_team
                    /\ sb.home_team = kalshi_row.home_team
                    /\ CellEq(sb.total_line, sportsbook_total)
    IN  Ascending({i \in 1..Len(sb_df) : Test(sb_df[i])})

cc_sb_matches(kalshi_row, sb_df) ==
    IF kalshi_row.bet_type = "moneyline" THEN cc_moneyline_matches(kalshi_row, sb_df)
    ELSE IF kalshi_row.bet_type = "spread" THEN cc_spread_matches(kalshi_row, sb_df)
    ELSE IF kalshi_row.bet_type = "total" THEN cc_total_matches(kalshi_row, sb_df)
    ELSE <<>>

(* lines 118-140: one entry of matches                                     *)
cc_match(match_count, kalshi_id, kalshi_row, sb_id, sb_row) ==
    [Match_ID               |-> match_count,
     Kalshi_Row             |-> kalshi_id,
     Sportsbook_Row         |-> sb_id,
     Game                   |-> <<kalshi_row.away_team, kalshi_row.home_team>>,
     Bet_Type               |-> kalshi_row.bet_type,
     Line_Value             |-> kalshi_row.line_value,
     Kalshi_Team_Side       |-> <<kalshi_row.team, kalshi_row.side>>,
     Sportsbook_Team        |-> sb_row.team,
     Bookmaker              |-> sb_row.bookmaker,
     Kalshi_Probability     |-> kalshi_row.kalshi_probability,
     Sportsbook_Probability |-> sb_row.implied_prob_vig_adj,
     Probability_Diff       |-> RatSub(kalshi_row.kalshi_probability,
                                       sb_row.implied_prob_vig_adj),
     Sportsbook_American_Odds |-> sb_row.american_odds,
     Kalshi_Bid_Ask         |-> <<kalshi_row.yes_bid, kalshi_row.yes_ask>>]

(* lines 31-140: matches after the Kalshi rows from kalshi_id on           *)
RECURSIVE cc_matches_from(_, _, _, _)
cc_matches_from(kalshi_df, sb_df, kalshi_id, matches) ==
    IF kalshi_id > Len(kalshi_df) THEN Returned(matches)
    ELSE IF /\ kalshi_df[kalshi_id].bet_type = "moneyline"
            /\ kalshi_df[kalshi_id].team.isNone
         THEN Raised("TypeError")      \* len(kalshi_team) of a NaN
    ELSE LET kalshi_row == kalshi_df[kalshi_id]
             ids        == cc_sb_matches(kalshi_row, sb_df)
             added      == [j \in 1..Len(ids) |->
                               cc_match(Len(matches) + j, kalshi_id, kalshi_row,
                                        ids[j], sb_df[ids[j]])]
         IN  cc_matches_from(kalshi_df, sb_df, kalshi_id + 1, matches \o added)

(* the files are None until written; reading a missing file raises         *)
create_comprehensive_raw_data(sb_file, kalshi_file) ==
    IF sb_file.isNone \/ kalshi_file.isNone THEN Raised("FileNotFoundError")
    ELSE cc_matches_from(kalshi_file.val, sb_file.val, 1, <<>>)

(* lines 145-155: the Non-Matched Kalshi sheet, its Row_ID and             *)
(* Potential_Issue columns; None when the run raised and wrote no workbook *)
non_matched_kalshi(kalshi_file, ret) ==
    IF ret.raised # "none" THEN None
    ELSE LET matched_kalshi_rows == {ret.value[i].Kalshi_Row : i \in 1..Len(ret.value)}
             ids == Ascending((1..Len(kalshi_file.val)) \ matched_kalshi_rows)
         IN  Some([j \in 1..Len(ids) |->
                 [Row_ID |-> ids[j],
                  Potential_Issue |->
                      IF kalshi_file.val[ids[j]].line_value.isNone
                      THEN "No line_value"
                      ELSE IF kalshi_file.val[ids[j]].bet_type # "moneyline"
                      THEN "Team name mismatch?"
                      ELSE "Game not in sportsbooks?"]])

---------------------------------------------------------------------------
(* data_processor.py: DataProcessor.combine_all_data and what it calls.    *)
(* A matched row carries two fields the code's row does not have,          *)
(* kalshi_row_id and sb_row_id: the positions of the two rows it was made  *)
(* from, kept so that properties can name them.                            *)

(* x.split()[-1]; None where Python raises IndexError                      *)
LastWord(x) ==
    IF Split(x) = <<>> THEN None ELSE Some(Split(x)[Len(Split(x))])

(* lines 477-506; 'a or b or c' takes the first truthy value, NaN is truthy *)
_create_matched_row(kalshi_id, kalshi_row, sb_id, sb_row, converted_line) ==
    [game_id     |-> sb_row.game_id,
     away_team   |-> sb_row.away_team,
     home_team   |-> sb_row.home_team,
     game_time   |-> sb_row.game_time,
     bet_type    |-> sb_row.bet_type,
     line_value  |-> IF ~converted_line.isNone /\ converted_line.val # 0
                     THEN converted_line
                     ELSE IF sb_row.spread_line.isNone \/ sb_row.spread_line.val # 0
                          THEN sb_row.spread_line
                          ELSE sb_row.total_line,
     team_side   |-> sb_row.team,
     kalshi_probability     |-> kalshi_row.kalshi_probability,
     kalshi_bid             |-> kalshi_row.yes_bid,
     kalshi_ask             |-> kalshi_row.yes_ask,
     sportsbook_probability |-> sb_row.implied_prob_vig_adj,
     sportsbook_odds        |-> sb_row.american_odds,
     bookmaker              |-> sb_row.bookmaker,
     actual_result          |-> None,
     kalshi_row_id          |-> kalshi_id,
     sb_row_id              |-> sb_id]

(* the rows made from kalshi_row and the sportsbook rows of Row_IDs ids    *)
dp_rows(kalshi_id, kalshi_row, sportsbook_df, converted_line, ids) ==
    [j \in 1..Len(ids) |->
        _create_matched_row(kalshi_id, kalshi_row, ids[j],
                            sportsbook_df[ids[j]], converted_line)]

(* the game filter shared by the three matchers                            *)
dp_same_game(sb, away_word, home_word) ==
    /\ ContainsNoCase(sb.away_team, away_word)
    /\ ContainsNoCase(sb.home_team, home_word)

(* lines 393-411                                                           *)
_match_moneyline(kalshi_id, kalshi_row, sportsbook_df) ==
    LET team == kalshi_row.team
        away == LastWord(kalshi_row.away_team)
        home == LastWord(kalshi_row.home_team)
        Test(sb) == /\ sb.bet_type = "moneyline"
                    /\ dp_same_game(sb, away.val, home.val)
                    /\ ContainsNoCase(sb.team, LastWord(team.val).val)
    IN  IF away.isNone \/ home.isNone THEN Raised("IndexError")
        ELSE IF team.isNone THEN Raised("AttributeError")
        ELSE IF LastWord(team.val).isNone THEN Raised("IndexError")
        ELSE Returned(dp_rows(kalshi_id, kalshi_row, sportsbook_df, None,
                              Ascending({i \in 1..Len(sportsbook_df) :
                                            Test(sportsbook_df[i])})))

(* lines 413-440; a missing line_value is read back as NaN, which is not   *)
(* None and equals no line                                                 *)
_match_spread(kalshi_id, kalshi_row, sportsbook_df) ==
    LET kalshi_line == kalshi_row.line_value
        sportsbook_line == IF kalshi_line.isNone THEN None
                           ELSE Some(-(kalshi_line.val - 1))
        team == kalshi_row.team
        away == LastWord(kalshi_row.away_team)
        home == LastWord(kalshi_row.home_team)
        Test(sb) == /\ sb.bet_type = "spread"
                    /\ dp_same_game(sb, away.val, home.val)
                    /\ CellEq(sb.spread_line, sportsbook_line)
                    /\ ContainsNoCase(sb.team, LastWord(team.val).val)
    IN  IF away.isNone \/ home.isNone THEN Raised("IndexError")
        ELSE IF team.isNone THEN Raised("AttributeError")
        ELSE IF LastWord(team.val).isNone THEN Raised("IndexError")
        ELSE Returned(dp_rows(kalshi_id, kalshi_row, sportsbook_df, sportsbook_line,
                              Ascending({i \in 1..Len(sportsbook_df) :
                                            Test(sportsbook_df[i])})))

(* lines 442-475: the total is parsed from the ticker again                *)
_match_total(kalshi_id, kalshi_row, sportsbook_df) ==
    LET ticker == kalshi_row.ticker
        kalshi_total == IF Contains(ticker, Chars_TOTAL)
                        THEN ParseFloat(AfterLast(ticker, Chars_TOTAL))
                        ELSE None
        sportsbook_total == Some(kalshi_total.val - 1)
        away == LastWord(kalshi_row.away_team)
        home == LastWord(kalshi_row.home_team)
        Test(sb) == /\ sb.bet_type = "total"
                    /\ dp_same_game(sb, away.val, home.val)
                    /\ CellEq(sb.total_line, sportsbook_total)
    IN  IF kalshi_total.isNone THEN Returned(<<>>)
        ELSE IF away.isNone \/ home.isNone THEN Raised("IndexError")
        ELSE Returned(dp_rows(kalshi_id, kalshi_row, sportsbook_df, sportsbook_total,
                              Ascending({i \in 1..Len(sportsbook_df) :
                                            Test(sportsbook_df[i])})))

(* lines 370-388: matched_rows after the Kalshi rows from kalshi_id on     *)
RECURSIVE dp_matched_from(_, _, _, _)
dp_matched_from(sportsbook_df, kalshi_df, kalshi_id, matched_rows) ==
    IF kalshi_id > Len(kalshi_df) THEN Returned(matched_rows)
    ELSE LET kalshi_row == kalshi_df[kalshi_id]
             bet_type   == kalshi_row.bet_type
             matches ==
                 IF bet_type = "moneyline"
                 THEN _match_moneyline(kalshi_id, kalshi_row, sportsbook_df)
                 ELSE IF bet_type = "spread"
                 THEN _match_spread(kalshi_id, kalshi_row, sportsbook_df)
                 ELSE IF bet_type = "total"
                 THEN _match_total(kalshi_id, kalshi_row, sportsbook_df)
                 ELSE Returned(<<>>)
         IN  IF matches.raised # "none" THEN matches
             ELSE dp_matched_from(sportsbook_df, kalshi_df, kalshi_id + 1,
                                  matched_rows \o matches.value)

(* lines 359-391; a frame is None when its file is missing                 *)
_match_exact_lines(sportsbook_df, kalshi_df) ==
    IF kalshi_df.isNone \/ sportsbook_df.isNone THEN Returned(<<>>)
    ELSE dp_matched_from(sportsbook_df.val, kalshi_df.val, 1, <<>>)

BetTypeRank(bet_type) ==
    IF bet_type = "moneyline" THEN 1 ELSE IF bet_type = "spread" THEN 2 ELSE 3

(* a sorts strictly before b by game_time, bet_type, line_value (NaN last) *)
SortsBefore(a, b) ==
    \/ a.game_time < b.game_time
    \/ /\ a.game_time = b.game_time
       /\ \/ BetTypeRank(a.bet_type) < BetTypeRank(b.bet_type)
          \/ /\ a.bet_type = b.bet_type
             /\ ~a.line_value.isNone
             /\ (b.line_value.isNone \/ a.line_value.val < b.line_value.val)

(* DataFrame.sort_values on several columns: stable                        *)
RECURSIVE InsertSorted(_, _)
InsertSorted(sorted, row) ==
    IF sorted = <<>> THEN <<row>>
    ELSE IF SortsBefore(row, Head(sorted)) THEN <<row>> \o sorted
    ELSE <<Head(sorted)>> \o InsertSorted(Tail(sorted), row)

RECURSIVE sort_values(_)
sort_values(rows) ==
    IF rows = <<>> THEN <<>>
    ELSE InsertSorted(sort_values(SubSeq(rows, 1, Len(rows) - 1)), rows[Len(rows)])

(* lines 508-537: the rows written to calibration_tracker.xlsx, None when  *)
(* nothing is written                                                      *)
_create_raw_data_sheet(matched_df) ==
    IF matched_df = <<>> THEN None ELSE Some(sort_values(matched_df))

(* lines 19-38                                                             *)
combine_all_data(sb_file, kalshi_file) ==
    IF sb_file.isNone /\ kalshi_file.isNone THEN Returned(None)
    ELSE LET matched_data == _match_exact_lines(sb_file, kalshi_file)
         IN  IF matched_data.raised # "none" THEN matched_data
             ELSE Returned(_create_raw_data_sheet(matched_data.value))

---------------------------------------------------------------------------
(* EV path: odds_fetcher.py, nfl_markets.py, ev_calculator.py.             *)
(* Team names and codes are only looked up and compared here, so they are  *)
(* plain strings.  A ticker is the sequence of its '-'-separated parts.    *)

name_to_code == {
    <<"Buffalo Bills", "BUF">>,
    <<"Miami Dolphins", "MIA">>,
    <<"New England Patriots", "NE">>,
    <<"New York Jets", "NYJ">>,
    <<"Baltimore Ravens", "BAL">>,
    <<"Cincinnati Bengals", "CIN">>,
    <<"Cleveland Browns", "CLE">>,
    <<"Pittsburgh Steelers", "PIT">>,
    <<"Houston Texans", "HOU">>,
    <<"Indianapolis Colts", "IND">>,
    <<"Jacksonville Jaguars", "JAC">>,
    <<"Tennessee Titans", "TEN">>,
    <<"Denver Broncos", "DEN">>,
    <<"Kansas City Chiefs", "KC">>,
    <<"Las Vegas Raiders", "LV">>,
    <<"Los Angeles Chargers", "LAC">>,
    <<"Dallas Cowboys", "DAL">>,
    <<"New York Giants", "NYG">>,
    <<"Philadelphia Eagles", "PHI">>,
    <<"Washington Commanders", "WAS">>,
    <<"Chicago Bears", "CHI">>,
    <<"Detroit Lions", "DET">>,
    <<"Green Bay Packers", "GB">>,
    <<"Minnesota Vikings", "MIN">>,
    <<"Atlanta Falcons", "ATL">>,
    <<"Carolina Panthers", "CAR">>,
    <<"New Orleans Saints", "NO">>,
    <<"Tampa Bay Buccaneers", "TB">>,
    <<"Arizona Cardinals", "ARI">>,
    <<"Los Angeles Rams", "LA">>,
    <<"San Francisco 49ers", "SF">>,
    <<"Seattle Seahawks", "SEA">>
}

(* a dict as a function; d[k] = v                                          *)
DictSet(d, k, v) == [x \in (DOMAIN d) \cup {k} |-> IF x = k THEN v ELSE d[x]]

_team_name_to_code(team_name) == DictGet(name_to_code, team_name, "")

(* The prices of the h2h outcomes named team_name, over all bookmakers,    *)
(* in feed order (outcome.get('price', 0) is the price).                   *)
RECURSIVE OutcomePrices(_, _)
OutcomePrices(outcomes, team_name) ==
    IF outcomes = <<>> THEN <<>>
    ELSE (IF Head(outcomes).name = team_name THEN <<Head(outcomes).price>> ELSE <<>>)
         \o OutcomePrices(Tail(outcomes), team_name)

RECURSIVE MarketPrices(_, _)
MarketPrices(markets, team_name) ==
    IF markets = <<>> THEN <<>>
    ELSE (IF Head(markets).key = "h2h"
          THEN OutcomePrices(Head(markets).outcomes, team_name) ELSE <<>>)
         \o MarketPrices(Tail(markets), team_name)

RECURSIVE BookmakerPrices(_, _)
BookmakerPrices(bookmakers, team_name) ==
    IF bookmakers = <<>> THEN <<>>
    ELSE MarketPrices(Head(bookmakers).markets, team_name)
         \o BookmakerPrices(Tail(bookmakers), team_name)

(* One iteration of the loop of parse_odds_to_teams over the games:        *)
(* team_odds after the game, or the exception the iteration raises.        *)
parse_game(team_odds, game) ==
    LET home_code == _team_name_to_code(game.home_team)
        away_code == _team_name_to_code(game.away_team)
        home_odds_list == BookmakerPrices(game.bookmakers, game.home_team)
        away_odds_list == BookmakerPrices(game.bookmakers, game.away_team)
        avg_home == _calculate_average_odds(home_odds_list)
        avg_away == _calculate_average_odds(away_odds_list)
    IN  IF ~game.in_week THEN Returned(team_odds)
        ELSE IF home_code = "" \/ away_code = "" THEN Returned(team_odds)
        ELSE IF home_code \in DOMAIN team_odds \/ away_code \in DOMAIN team_odds
             THEN Returned(team_odds)
        ELSE IF game.bookmakers = <<>> THEN Returned(team_odds)
        ELSE IF home_odds_list # <<>> /\ avg_home.raised # "none" THEN avg_home
        ELSE IF away_odds_list # <<>> /\ avg_away.raised # "none" THEN avg_away
        ELSE IF home_odds_list = <<>> \/ away_odds_list = <<>>
             THEN Raised("ValueError")     \* f"{'N/A':+d}"
        ELSE Returned(DictSet(DictSet(team_odds, home_code, avg_home.value),
                              away_code, avg_away.value))

RECURSIVE parse_games(_, _)
parse_games(team_odds, odds_data) ==
    IF odds_data = <<>> THEN Returned(team_odds)
    ELSE LET r == parse_game(team_odds, Head(odds_data))
         IN  IF r.raised # "none" THEN r ELSE parse_games(r.value, Tail(odds_data))

parse_odds_to_teams(odds_data) == parse_games(<<>>, odds_data)

(* get_sportsbook_odds: raw_odds is None when the fetch failed; the result *)
(* is None when there is nothing to use.                                   *)
get_sportsbook_odds(raw_odds) ==
    IF raw_odds.isNone \/ raw_odds.val = <<>> THEN Returned(None)
    ELSE LET r == parse_odds_to_teams(raw_odds.val)
         IN  IF r.raised # "none" THEN r
             ELSE IF DOMAIN r.value = {} THEN Returned(None)
             ELSE Returned(Some(r.value))

(* extract_games_from_markets: games as the sequence of                    *)
(* [game_id, teams], teams the sequence of [team, data], in insertion      *)
(* order.  games after one market:                                         *)
games_with_market(games, market) ==
    LET ticker_parts == market.ticker
        game_id == ticker_parts[2]
        team    == ticker_parts[3]
        entry   == [team |-> team, data |-> market]
        put(teams) ==
            IF \E j \in 1..Len(teams) : teams[j].team = team
            THEN [j \in 1..Len(teams) |-> IF teams[j].team = team THEN entry ELSE teams[j]]
            ELSE Append(teams, entry)
    IN  IF Len(ticker_parts) >= 3
        THEN IF \E i \in 1..Len(games) : games[i].game_id = game_id
             THEN [i \in 1..Len(games) |->
                     IF games[i].game_id = game_id
                     THEN [games[i] EXCEPT !.teams = put(games[i].teams)]
                     ELSE games[i]]
             ELSE Append(games, [game_id |-> game_id, teams |-> <<entry>>])
        ELSE games

(* The return statement stands inside the loop body: the function returns  *)
(* after the first market, and returns None for an empty list.             *)
extract_games_from_markets(markets) ==
    IF markets = <<>> THEN None
    ELSE Some(games_with_market(<<>>, markets[1]))

(* a variant without the boundary: a free contract is given 100 percent   *)
(* and a zero EV counts as positive                                       *)
calculate_ev_loose(kalshi_ask_cents, sportsbook_american_odds, bet_amount) ==
    LET true_prob       == american_to_probability(sportsbook_american_odds)
        kalshi_prob     == Rat(kalshi_ask_cents, 100)
        cost            == RatMul(Rat(kalshi_ask_cents, 100), Int2Rat(bet_amount))
        expected_payout == RatMul(true_prob, Int2Rat(bet_amount))
        ev              == RatSub(expected_payout, cost)
        ev_percent      == IF RatGt(cost, Zero)
                           THEN RatMul(RatDiv(ev, cost), Int2Rat(100))
                           ELSE Int2Rat(100)
    IN  [kalshi_price_cents  |-> kalshi_ask_cents,
         kalshi_implied_prob |-> kalshi_prob,
         sportsbook_odds     |-> sportsbook_american_odds,
         true_prob           |-> true_prob,
         bet_amount          |-> bet_amount,
         cost                |-> cost,
         expected_payout     |-> expected_payout,
         ev_dollars          |-> ev,
         ev_percent          |-> ev_percent,
         is_positive_ev      |-> RatLe(Zero, ev),
         edge                |-> RatSub(true_prob, kalshi_prob)]

(* a variant that takes the edge from the exchange's side                  *)
calculate_ev_edge_swapped(kalshi_ask_cents, sportsbook_american_odds, bet_amount) ==
    LET true_prob       == american_to_probability(sportsbook_american_odds)
        kalshi_prob     == Rat(kalshi_ask_cents, 100)
        cost            == RatMul(Rat(kalshi_ask_cents, 100), Int2Rat(bet_amount))
        expected_payout == RatMul(true_prob, Int2Rat(bet_amount))
        ev              == RatSub(expected_payout, cost)
        ev_percent      == IF RatGt(cost, Zero)
                           THEN RatMul(RatDiv(ev, cost), Int2Rat(100))
                           ELSE Zero
    IN  [kalshi_price_cents  |-> kalshi_ask_cents,
         kalshi_implied_prob |-> kalshi_prob,
         sportsbook_odds     |-> sportsbook_american_odds,
         true_prob           |-> true_prob,
         bet_amount          |-> bet_amount,
         cost                |-> cost,
         expected_payout     |-> expected_payout,
         ev_dollars          |-> ev,
         ev_percent          |-> ev_percent,
         is_positive_ev      |-> RatGt(ev, Zero),
         edge                |-> RatSub(kalshi_prob, true_prob)]

(* ev_calculator.calculate_ev                                              *)
calculate_ev(kalshi_ask_cents, sportsbook_american_odds, bet_amount) ==
    LET true_prob       == american_to_probability(sportsbook_american_odds)
        kalshi_prob     == Rat(kalshi_ask_cents, 100)
        cost            == RatMul(Rat(kalshi_ask_cents, 100), Int2Rat(bet_amount))
        expected_payout == RatMul(true_prob, Int2Rat(bet_amount))
        ev              == RatSub(expected_payout, cost)
        ev_percent      == IF RatGt(cost, Zero)
                           THEN RatMul(RatDiv(ev, cost), Int2Rat(100))
                           ELSE Zero
    IN  [kalshi_price_cents  |-> kalshi_ask_cents,
         kalshi_implied_prob |-> kalshi_prob,
         sportsbook_odds     |-> sportsbook_american_odds,
         true_prob           |-> true_prob,
         bet_amount          |-> bet_amount,
         cost                |-> cost,
         expected_payout     |-> expected_payout,
         ev_dollars          |-> ev,
         ev_percent          |-> ev_percent,
         is_positive_ev      |-> RatGt(ev, Zero),
         edge                |-> RatSub(true_prob, kalshi_prob)]

DefaultBetAmount == 10

(* a variant that puts an opportunity before those of equal ev_percent    *)
RECURSIVE InsertByEvUnstable(_, _)
InsertByEvUnstable(sorted, op) ==
    IF sorted = <<>> THEN <<op>>
    ELSE IF RatLe(Head(sorted).ev_percent, op.ev_percent)
         THEN <<op>> \o sorted
         ELSE <<Head(sorted)>> \o InsertByEvUnstable(Tail(sorted), op)

(* list.sort(key=ev_percent, reverse=True): stable, descending             *)
RECURSIVE InsertByEv(_, _)
InsertByEv(sorted, op) ==
    IF sorted = <<>> THEN <<op>>
    ELSE IF RatLt(Head(sorted).ev_percent, op.ev_percent)
         THEN <<op>> \o sorted
         ELSE <<Head(sorted)>> \o InsertByEv(Tail(sorted), op)

RECURSIVE SortByEvDesc(_)
SortByEvDesc(ops) ==
    IF ops = <<>> THEN <<>>
    ELSE InsertByEv(SortByEvDesc(SubSeq(ops, 1, Len(ops) - 1)), ops[Len(ops)])

(* The opportunities of the teams of one game, in order.                   *)
RECURSIVE team_opportunities(_, _, _)
team_opportunities(game_id, teams, sportsbook_odds) ==
    IF teams = <<>> THEN <<>>
    ELSE LET team_code == Head(teams).team
             kalshi_data == Head(teams).data
         IN  (IF team_code \in DOMAIN sportsbook_odds
              THEN <<[game_id |-> game_id, team |-> team_code] @@
                     calculate_ev(kalshi_data.yes_ask, sportsbook_odds[team_code],
                                  DefaultBetAmount)>>
              ELSE <<>>)
             \o team_opportunities(game_id, Tail(teams), sportsbook_odds)

RECURSIVE game_opportunities(_, _)
game_opportunities(games, sportsbook_odds) ==
    IF games = <<>> THEN <<>>
    ELSE team_opportunities(Head(games).game_id, Head(games).teams, sportsbook_odds)
         \o game_opportunities(Tail(games), sportsbook_odds)

(* find_ev_opportunities on what the two feeds deliver: the value it       *)
(* returns (None, or the list of opportunities) or the exception it raises.*)
find_ev_opportunities(kalshi_markets, raw_odds) ==
    IF kalshi_markets = <<>> THEN Returned(None)
    ELSE LET games == extract_games_from_markets(kalshi_markets).val
             sb    == get_sportsbook_odds(raw_odds)
         IN  IF sb.raised # "none" THEN sb
             ELSE IF sb.value.isNone THEN Returned(Some(<<>>))
             ELSE Returned(Some(SortByEvDesc(
                      game_opportunities(games, sb.value.val))))

(* f"{x:.kf}": the nearest multiple of 10^-k, ties to the even one         *)
FormatPlaces(a, k) ==
    LET p  == ScaledFloor(Abs(a.n), a.d, k)
        up == \/ 2 * p.r > a.d
              \/ 2 * p.r = a.d /\ p.q % 2 = 1
        m  == IF up THEN p.q + 1 ELSE p.q
    IN  Rat(IF a.n < 0 THEN -m ELSE m, 10 ^ k)

Min(a, b) == IF a <= b THEN a ELSE b

(* paper_tracker: one row of the CSV, its numbers as the formats print     *)
(* them                                                                    *)
trade_entry(op, max_bet_amount) ==
    LET bet_amount  == Min(max_bet_amount, max_bet_amount)
        kalshi_cost == RatMul(Rat(op.kalshi_price_cents, 100), Int2Rat(bet_amount))
        max_win     == RatSub(Int2Rat(bet_amount), kalshi_cost)
        max_loss    == kalshi_cost
    IN  [Game_ID         |-> op.game_id,
         Team            |-> op.team,
         Kalshi_Price    |-> op.kalshi_price_cents,
         Sportsbook_Odds |-> op.sportsbook_odds,
         Implied_Prob    |-> FormatPlaces(RatMul(op.true_prob, Int2Rat(100)), 1),
         EV_Percent      |-> FormatPlaces(op.ev_percent, 1),
         EV_Dollars      |-> FormatPlaces(op.ev_dollars, 2),
         Bet_Amount      |-> bet_amount,
         Max_Win         |-> FormatPlaces(max_win, 2),
         Max_Loss        |-> FormatPlaces(max_loss, 2)]

(* [op for op in opportunities if op['is_positive_ev']]                    *)
RECURSIVE positive_ev_of(_)
positive_ev_of(opportunities) ==
    IF opportunities = <<>> THEN <<>>
    ELSE (IF Head(opportunities).is_positive_ev THEN <<Head(opportunities)>> ELSE <<>>)
         \o positive_ev_of(Tail(opportunities))

(* [op for op in opportunities                                             *)
(*  if op['is_positive_ev'] and op['ev_percent'] >= min_ev_percent]        *)
RECURSIVE good_opportunities_of(_, _)
good_opportunities_of(opportunities, min_ev_percent) ==
    IF opportunities = <<>> THEN <<>>
    ELSE (IF /\ Head(opportunities).is_positive_ev
             /\ RatLe(Int2Rat(min_ev_percent), Head(opportunities).ev_percent)
          THEN <<Head(opportunities)>> ELSE <<>>)
         \o good_opportunities_of(Tail(opportunities), min_ev_percent)

(* a variant that keeps every positive-EV opportunity, whatever the        *)
(* threshold                                                               *)
create_paper_trades_any(opportunities, min_ev_percent, max_bet_amount, csv_written) ==
    IF opportunities.raised # "none" THEN opportunities
    ELSE IF opportunities.value.isNone \/ opportunities.value.val = <<>>
         THEN Returned(None)
    ELSE LET good_opportunities == positive_ev_of(opportunities.value.val)
             paper_trades ==
                 [i \in 1..Len(good_opportunities) |->
                     trade_entry(good_opportunities[i], max_bet_amount)]
         IN  IF csv_written THEN Returned(Some(paper_trades)) ELSE Returned(None)

(* paper_tracker.create_paper_trades on what find_ev_opportunities gave:   *)
(* the rows of the CSV it wrote, None when it wrote none, or the exception *)
create_paper_trades(opportunities, min_ev_percent, max_bet_amount, csv_written) ==
    IF opportunities.raised # "none" THEN opportunities
    ELSE IF opportunities.value.isNone \/ opportunities.value.val = <<>>
         THEN Returned(None)
    ELSE LET good_opportunities ==
                 good_opportunities_of(opportunities.value.val, min_ev_percent)
             paper_trades ==
                 [i \in 1..Len(good_opportunities) |->
                     trade_entry(good_opportunities[i], max_bet_amount)]
         IN  IF csv_written THEN Returned(Some(paper_trades)) ELSE Returned(None)

(* main.main without a command on what find_ev_opportunities gave: the     *)
(* Best EV line it printed (None when it printed none), or the exception   *)
main(opportunities) ==
    IF opportunities.raised # "none" THEN opportunities
    ELSE IF opportunities.value.isNone \/ opportunities.value.val = <<>>
         THEN Returned(None)
    ELSE LET positive_ev == positive_ev_of(opportunities.value.val)
         IN  IF positive_ev = <<>> THEN Raised("IndexError")
             ELSE Returned(Some([team       |-> positive_ev[1].team,
                                 ev_percent |-> FormatPlaces(positive_ev[1].ev_percent, 1)]))

---------------------------------------------------------------------------
(* The codec functions applied to bounded inputs.                          *)

(* American odds a feed can quote: at least 100 in magnitude; 0 is what   *)
(* outcome.get('price', 0) gives for an outcome without a price.          *)
OddsRange == {o \in (-MaxOdds)..MaxOdds : Abs(o) >= 100 \/ o = 0}
OpponentOdds == {o \in OddsRange : o % 10 = 0}

CodecCtx ==
    [game_id |-> "g1", away_team |-> <<"A">>, home_team |-> <<"B">>,
     game_time |-> 1, sport |-> "nfl", bm_name |-> "draftkings"]

(* A market of 1, 2 or 3 outcomes priced from the two inputs.             *)
CodecOutcomes(n, point) ==
    SubSeq(<<[name |-> <<"A">>, price |-> codec_call.team_odds, point |-> point],
             [name |-> <<"B">>, price |-> codec_call.opponent_odds, point |-> point],
             [name |-> <<"D","r","a","w">>, price |-> codec_call.team_odds,
              point |-> point]>>, 1, n)

Prices(outcomes) == [i \in 1..Len(outcomes) |-> outcomes[i].price]

CodecIdle ==
    /\ codec_call = [fn |-> "none", team_odds |-> 0, opponent_odds |-> 0,
                     odds_list |-> <<>>, args |-> <<>>]
    /\ codec_ret = Returned(Zero)

NotCalled == [raised |-> "not called", value |-> None]

NoPaperCall == [min_ev_percent |-> 0, max_bet_amount |-> 0, ret |-> NotCalled]

EvIdle ==
    /\ ev_kalshi_markets = <<>>
    /\ ev_raw_odds = None
    /\ ev_sportsbook_odds = Returned(None)
    /\ ev_opportunities = Returned(None)
    /\ ev_pc = "idle"
    /\ paper_call = NoPaperCall
    /\ main_ret = NotCalled

MatchIdle ==
    /\ sportsbook_odds_xlsx = None
    /\ kalshi_all_markets_xlsx = None
    /\ cc_ret = NotCalled
    /\ cc_non_matched = None
    /\ dp_ret = NotCalled
    /\ results_entry_sheet = None
    /\ grading_pass = [path |-> "none", status |-> "none",
                       away_score |-> None, home_score |-> None]

CodecInit ==
    /\ codec_call \in [fn : {"none"}, team_odds : OddsRange,
                       opponent_odds : OpponentOdds, odds_list : {<<>>},
                       args : {<<>>}]
    /\ codec_ret = Returned(Zero)
    /\ EvIdle
    /\ MatchIdle

Call_american_to_probability ==
    /\ codec_call.fn = "none"
    /\ codec_call' = [codec_call EXCEPT !.fn = "american_to_probability"]
    /\ codec_ret' = Returned(american_to_probability(codec_call.team_odds))
    /\ UNCHANGED <<ev_vars, match_vars>>

Call_remove_vig_from_odds ==
    /\ codec_call.fn = "none"
    /\ codec_call' = [codec_call EXCEPT !.fn = "remove_vig_from_odds"]
    /\ codec_ret' = Returned(remove_vig_from_odds(codec_call.team_odds,
                                                  codec_call.opponent_odds))
    /\ UNCHANGED <<ev_vars, match_vars>>

Call_calculate_average_odds ==
    /\ codec_call.fn = "none"
    /\ \E l \in {<<>>, <<codec_call.team_odds>>,
                 <<codec_call.team_odds, codec_call.opponent_odds>>} :
          /\ codec_call' = [codec_call EXCEPT !.fn = "_calculate_average_odds",
                                              !.odds_list = l]
          /\ codec_ret' \in _calculate_average_odds_double(l)
    /\ UNCHANGED <<ev_vars, match_vars>>

Call_process_moneyline_market ==
    /\ codec_call.fn = "none"
    /\ \E n \in 1..3 :
          LET market == [key |-> "h2h", outcomes |-> CodecOutcomes(n, None)]
          IN  /\ codec_call' = [codec_call EXCEPT !.fn = "_process_moneyline_market",
                                                  !.odds_list = Prices(market.outcomes)]
              /\ codec_ret' = _process_moneyline_market(market, CodecCtx)
    /\ UNCHANGED <<ev_vars, match_vars>>

Call_process_spread_market ==
    /\ codec_call.fn = "none"
    /\ \E n \in 1..3 :
          LET market == [key |-> "spreads", outcomes |-> CodecOutcomes(n, Some(-13))]
          IN  /\ codec_call' = [codec_call EXCEPT !.fn = "_process_spread_market",
                                                  !.odds_list = Prices(market.outcomes)]
              /\ codec_ret' = _process_spread_market(market, CodecCtx)
    /\ UNCHANGED <<ev_vars, match_vars>>

Call_process_totals_market ==
    /\ codec_call.fn = "none"
    /\ \E n \in 1..3 :
          LET market == [key |-> "totals", outcomes |-> CodecOutcomes(n, Some(87))]
          IN  /\ codec_call' = [codec_call EXCEPT !.fn = "_process_totals_market",
                                                  !.odds_list = Prices(market.outcomes)]
              /\ codec_ret' = _process_totals_market(market, CodecCtx)
    /\ UNCHANGED <<ev_vars, match_vars>>

(* calculate_ev at a free contract, a usual price and a sure one, for no   *)
(* stake, the default stake and another                                   *)
(* ask prices in cents: the ends of the range and the cents next to them, *)
(* and the prices that odds of +100 and -150 imply                        *)
AskCents == {0, 1, 48, 50, 60, 99, 100}

Call_calculate_ev ==
    /\ codec_call.fn = "none"
    /\ \E kalshi_ask_cents \in AskCents, bet_amount \in {0, DefaultBetAmount, 25} :
          /\ codec_call' = [codec_call EXCEPT !.fn = "calculate_ev",
                                              !.args = <<kalshi_ask_cents, bet_amount>>]
          /\ codec_ret' = Returned(calculate_ev(kalshi_ask_cents, codec_call.team_odds,
                                                bet_amount))
    /\ UNCHANGED <<ev_vars, match_vars>>

(* opportunities.sort(...) of find_ev_opportunities on three computed      *)
(* opportunities, the first and the third of the same odds                 *)
Call_sort_opportunities ==
    /\ codec_call.fn = "none"
    /\ \E asks \in [1..3 -> {0, 48}] :
          LET teams == <<"LAC", "LV", "KC">>
              opportunities ==
                  [i \in 1..3 |->
                      [game_id |-> "g", team |-> teams[i]] @@
                      calculate_ev(asks[i],
                                   IF i = 2 THEN codec_call.opponent_odds
                                   ELSE codec_call.team_odds,
                                   DefaultBetAmount)]
          IN  /\ codec_call' = [codec_call EXCEPT !.fn = "opportunities.sort",
                                                  !.args = opportunities]
              /\ codec_ret' = Returned(SortByEvDesc(opportunities))
    /\ UNCHANGED <<ev_vars, match_vars>>

CodecNext ==
    \/ Call_american_to_probability
    \/ Call_calculate_ev
    \/ Call_sort_opportunities
    \/ Call_remove_vig_from_odds
    \/ Call_calculate_average_odds
    \/ Call_process_moneyline_market
    \/ Call_process_spread_market
    \/ Call_process_totals_market

SpecCodec == CodecInit /\ [][CodecNext]_vars

---------------------------------------------------------------------------
(* The EV path run once on what the two feeds deliver.                     *)

EvGameId == "25SEP15LACLV"
(* the return fixture of the same two teams                                *)
EvLaterGameId == "25NOV30LVLAC"
EvAway   == "Los Angeles Chargers"
EvHome   == "Las Vegas Raiders"


(* liquid moneyline markets of the game, one whose ticker has no team, and *)
(* one of the return fixture                                               *)
EvMarkets ==
    [ticker : {<<"KXNFLGAME", EvGameId, "LAC">>, <<"KXNFLGAME", EvGameId, "LV">>},
     yes_ask : {0, 48, 55}]
    \cup {[ticker |-> <<"KXNFLGAME", EvGameId>>, yes_ask |-> 48],
          [ticker |-> <<"KXNFLGAME", EvLaterGameId, "LAC">>, yes_ask |-> 48]}

(* home price, away price of one bookmaker's h2h market                    *)
EvPrices == {<<-110, -110>>, <<-150, 130>>, <<130, -150>>, <<0, 0>>}

EvBookmaker(prices) ==
    [markets |-> <<[key |-> "h2h",
                    outcomes |-> <<[name |-> EvHome, price |-> prices[1]],
                                   [name |-> EvAway, price |-> prices[2]]>>]>>]

SeqsUpTo(S, n) == UNION {[1..k -> S] : k \in 0..n}

EvOddsFeeds ==
    {None} \cup
    {Some(<<[home_team |-> EvHome, away_team |-> EvAway, in_week |-> w,
             bookmakers |-> [i \in 1..Len(ps) |-> EvBookmaker(ps[i])]]>>) :
        w \in BOOLEAN, ps \in SeqsUpTo(EvPrices, MaxEvBooks)}

EvInit ==
    /\ ev_kalshi_markets \in SeqsUpTo(EvMarkets, MaxEvMarkets)
    /\ ev_raw_odds \in EvOddsFeeds
    /\ ev_sportsbook_odds = Returned(None)
    /\ ev_opportunities = Returned(None)
    /\ ev_pc = "start"
    /\ paper_call = NoPaperCall
    /\ main_ret = NotCalled
    /\ CodecIdle
    /\ MatchIdle

FindEvOpportunities ==
    /\ ev_pc = "start"
    /\ ev_pc' = "done"
    /\ ev_sportsbook_odds' = (IF ev_kalshi_markets = <<>> THEN Returned(None)
                           ELSE get_sportsbook_odds(ev_raw_odds))
    /\ ev_opportunities' = find_ev_opportunities(ev_kalshi_markets, ev_raw_odds)
    /\ UNCHANGED <<ev_kalshi_markets, ev_raw_odds, codec_vars, match_vars>>

(* thresholds and stakes a caller passes: main gives float(argv[2]) and    *)
(* int(argv[3]), by default 2.0 and 20                                     *)
MinEvPercents == {2, 30}
MaxBetAmounts == {DefaultBetAmount, 20}

(* create_paper_trades after its call of find_ev_opportunities; the CSV    *)
(* may fail to open                                                        *)
CreatePaperTrades ==
    /\ \E min_ev_percent \in MinEvPercents, max_bet_amount \in MaxBetAmounts,
          csv_written \in BOOLEAN :
          paper_call' = [min_ev_percent |-> min_ev_percent,
                         max_bet_amount |-> max_bet_amount,
                         ret |-> create_paper_trades(ev_opportunities', min_ev_percent,
                                                     max_bet_amount, csv_written)]
    /\ UNCHANGED main_ret

(* main without a command after its call of find_ev_opportunities          *)
Main ==
    /\ main_ret' = main(ev_opportunities')
    /\ UNCHANGED paper_call

(* one run of the program: find_ev_opportunities by itself, under          *)
(* create_paper_trades, or under main without a command                    *)
EvNext ==
    /\ FindEvOpportunities
    /\ \/ UNCHANGED <<paper_call, main_ret>>
       \/ CreatePaperTrades
       \/ Main

SpecEV == EvInit /\ [][EvNext]_vars

---------------------------------------------------------------------------
(* The collection scripts and the two matchers, run as separate programs   *)
(* on the two files.  One game is offered: Jacksonville at Kansas City.    *)

Chars_JAC == <<"J","A","C">>
Chars_KC  == <<"K","C">>
SbAway == <<"J","a","c","k","s","o","n","v","i","l","l","e"," ","J","a","g","u","a","r","s">>
SbHome == <<"K","a","n","s","a","s"," ","C","i","t","y"," ","C","h","i","e","f","s">>
Chars_Over  == <<"O","v","e","r">>
Chars_Under == <<"U","n","d","e","r">>
TitleJacksonville == <<"J","a","c","k","s","o","n","v","i","l","l","e">>
TitleKansasCity   == <<"K","a","n","s","a","s"," ","C","i","t","y">>

RECURSIVE JoinDash(_)
JoinDash(parts) ==
    IF Len(parts) = 1 THEN parts[1]
    ELSE parts[1] \o <<"-">> \o JoinDash(Tail(parts))

GamePart == <<"2","5","S","E","P","2","8","J","A","C","K","C">>

Bookmakers == {"draftkings", "fanduel"}

(* the away team's spread in half-points: -6.5, -7.0, +6.5                 *)
SbAwayPoints == {-13, -14, 13}
SbTotalPoint == 87

SbMarkets ==
    {[key |-> "h2h",
      outcomes |-> <<[name |-> SbAway, price |-> pr[1], point |-> None],
                     [name |-> SbHome, price |-> pr[2], point |-> None]>>] :
        pr \in {<<130, -150>>, <<120, -140>>}}
    \cup {[key |-> "spreads",
           outcomes |-> <<[name |-> SbAway, price |-> -110, point |-> Some(p)],
                          [name |-> SbHome, price |-> -110, point |-> Some(-p)]>>] :
             p \in SbAwayPoints}
    \cup {[key |-> "totals",
           outcomes |-> <<[name |-> Chars_Over, price |-> -110,
                           point |-> Some(SbTotalPoint)],
                          [name |-> Chars_Under, price |-> -110,
                           point |-> Some(SbTotalPoint)]>>]}

SbGame(bm, market) ==
    [id |-> "g1", away_team |-> SbAway, home_team |-> SbHome, commence_time |-> 1,
     bookmakers |-> <<[key |-> bm, markets |-> <<market>>]>>]

NoTitle == [team |-> None, line |-> None, over |-> TRUE]

KalshiPrices == [yes_bid |-> 47, yes_ask |-> 48]

KalshiMarket(ticker, title) ==
    [ticker |-> ticker, title |-> title,
     yes_bid |-> KalshiPrices.yes_bid, yes_ask |-> KalshiPrices.yes_ask]

(* the markets offered: both moneylines and one whose ticker ends after    *)
(* the last dash; spreads on either team at 7 and                          *)
(* 7.5 or with a title that gives no line or no team; totals at 44 with   *)
(* the ticker ending in the number alone or in TOTAL-44                    *)
KalshiOffers ==
    {<<"moneyline",
       KalshiMarket(JoinDash(<<<<"K","X","N","F","L","G","A","M","E">>, GamePart, t>>), NoTitle)>> :
         t \in {Chars_JAC, Chars_KC, <<>>}}
    \cup {<<"spread",
            KalshiMarket(JoinDash(<<<<"K","X","N","F","L","S","P","R","E","A","D">>, GamePart, Chars_JAC>>),
                         [team |-> tm, line |-> ln, over |-> TRUE])>> :
            tm \in {Some(TitleJacksonville), Some(TitleKansasCity)},
            ln \in {Some(14), Some(15), None}}
    \cup {<<"spread",
            KalshiMarket(JoinDash(<<<<"K","X","N","F","L","S","P","R","E","A","D">>, GamePart, Chars_JAC>>),
                         [team |-> None, line |-> Some(14), over |-> TRUE])>>}
    \cup {<<"total", KalshiMarket(JoinDash(<<<<"K","X","N","F","L","T","O","T","A","L">>, GamePart>> \o tail), NoTitle)>> :
            tail \in {<<<<"4","4">>>>, <<<<"T","O","T","A","L">>, <<"4","4">>>>}}

(* get_nfl_all_markets groups the markets by type in the order of its     *)
(* series_map                                                              *)
OfType(offers, market_type) ==
    LET ids == Ascending({i \in 1..Len(offers) : offers[i][1] = market_type})
    IN  [j \in 1..Len(ids) |-> offers[ids[j]][2]]

AllMarkets(offers) ==
    LET types == <<"moneyline", "spread", "total">>
        kept  == Ascending({t \in 1..3 : OfType(offers, types[t]) # <<>>})
    IN  [j \in 1..Len(kept) |-> <<types[kept[j]], OfType(offers, types[kept[j]])>>]

(* the moneyline market of Jacksonville, offered next to any other market  *)
KalshiCompanion ==
    <<"moneyline",
      KalshiMarket(JoinDash(<<<<"K","X","N","F","L","G","A","M","E">>, GamePart, Chars_JAC>>), NoTitle)>>

(* what get_nfl_all_markets may deliver in one run                         *)
KalshiBatches ==
    SeqsUpTo(KalshiOffers, MaxKalshiMarkets)
    \cup {<<o, KalshiCompanion>> : o \in KalshiOffers}
    \cup {<<KalshiCompanion, o>> : o \in KalshiOffers}

MatchInit ==
    /\ MatchIdle
    /\ CodecIdle
    /\ EvIdle

Collecting == cc_ret = NotCalled /\ dp_ret = NotCalled


CollectAllMarkets ==
    /\ Collecting
    /\ (IF sportsbook_odds_xlsx.isNone THEN 0 ELSE Len(sportsbook_odds_xlsx.val)) + 2
         <= MaxSbRows
    /\ \E bm \in Bookmakers, market \in SbMarkets :
          sportsbook_odds_xlsx' =
              FileAfter(sportsbook_odds_xlsx,
                        collect_all_markets(sportsbook_odds_xlsx,
                                            Some(<<SbGame(bm, market)>>)))
    /\ UNCHANGED <<kalshi_all_markets_xlsx, cc_ret, cc_non_matched, dp_ret, 
                 results_entry_sheet, grading_pass, codec_vars, ev_vars>>

CollectAllKalshiMarketsToExcel ==
    /\ Collecting
    /\ \E offers \in KalshiBatches :
          kalshi_all_markets_xlsx' =
              FileAfter(kalshi_all_markets_xlsx,
                        collect_all_kalshi_markets_to_excel(kalshi_all_markets_xlsx,
                                                            AllMarkets(offers)))
    /\ UNCHANGED <<sportsbook_odds_xlsx, cc_ret, cc_non_matched, dp_ret, 
                 results_entry_sheet, grading_pass, codec_vars, ev_vars>>

CreateComprehensiveRawData ==
    /\ cc_ret = NotCalled
    /\ cc_ret' = create_comprehensive_raw_data(sportsbook_odds_xlsx, kalshi_all_markets_xlsx)
    /\ cc_non_matched' = non_matched_kalshi(kalshi_all_markets_xlsx, cc_ret')
    /\ UNCHANGED <<sportsbook_odds_xlsx, kalshi_all_markets_xlsx, dp_ret, 
                 results_entry_sheet, grading_pass, codec_vars, ev_vars>>

CombineAllData ==
    /\ dp_ret = NotCalled
    /\ dp_ret' = combine_all_data(sportsbook_odds_xlsx, kalshi_all_markets_xlsx)
    /\ UNCHANGED <<sportsbook_odds_xlsx, kalshi_all_markets_xlsx, cc_ret, cc_non_matched, 
                 results_entry_sheet, grading_pass, codec_vars, ev_vars>>

Next ==
    \/ CollectAllMarkets
    \/ CollectAllKalshiMarketsToExcel
    \/ CreateComprehensiveRawData
    \/ CombineAllData

Spec == MatchInit /\ [][Next]_vars

---------------------------------------------------------------------------
(* Grading: automated_results.py (the scoreboard pass) and the entry-sheet *)
(* pass of data_processor.py.  Scores are in points and lines in           *)
(* half-points, so score + line > other is compared on doubled scores.     *)
(* A scoreboard event is [status, competitors]; a competitor is            *)
(* [displayName, score, homeAway].  A result cell is None (NaN), Some(0)   *)
(* or Some(1).                                                             *)

Chars_TIE == <<"T","I","E">>
Chars_away_team == <<"a","w","a","y","_","t","e","a","m">>

(* lines 85-147: the game result of an event, None when it yields none     *)
_process_nfl_game(event) ==
    LET competitors == event.competitors
        side(s) == {i \in 1..Len(competitors) : competitors[i].homeAway = s}
        last(s) == competitors[CHOOSE i \in side(s) : \A j \in side(s) : j <= i]
    IN  IF event.status # "STATUS_FINAL" THEN None
        ELSE IF Len(competitors) # 2 THEN None
        ELSE IF side("away") = {} \/ side("home") = {} THEN None
        ELSE IF last("away").displayName = <<>> \/ last("home").displayName = <<>>
             THEN None
        ELSE LET away_team  == last("away").displayName
                 home_team  == last("home").displayName
                 away_score == last("away").score
                 home_score == last("home").score
             IN  Some([sport |-> "nfl",
                       away_team |-> away_team,
                       home_team |-> home_team,
                       away_score |-> away_score,
                       home_score |-> home_score,
                       total_score |-> away_score + home_score,
                       winning_team |-> IF away_score > home_score THEN away_team
                                        ELSE IF home_score > away_score THEN home_team
                                        ELSE Chars_TIE,
                       status |-> event.status])

(* lines 19-51: events is what the scoreboard request delivered, None when *)
(* it failed                                                               *)
get_nfl_results(events) ==
    IF events.isNone THEN <<>>
    ELSE LET ids == Ascending({i \in 1..Len(events.val) :
                                  ~_process_nfl_game(events.val[i]).isNone})
         IN  [j \in 1..Len(ids) |-> _process_nfl_game(events.val[ids[j]]).val]

(* lines 270-274 and 336-340: the row belongs to the game of the result    *)
matching_games(row, sport, result) ==
    /\ ContainsNoCase(row.away_team, LastWord(result.away_team).val)
    /\ ContainsNoCase(row.home_team, LastWord(result.home_team).val)
    /\ sport = result.sport

(* lines 277-319: the result cell of a row of the game                     *)
sportsbook_odds_result(row, result) ==
    IF ~row.result.isNone THEN row.result
    ELSE IF row.bet_type = "moneyline"
    THEN IF row.team = result.winning_team \/ Contains(row.team, result.winning_team)
         THEN Some(1) ELSE Some(0)
    ELSE IF row.bet_type = "spread"
    THEN IF row.spread_line.isNone THEN row.result
         ELSE IF Contains(row.team, Chars_away_team) \/ Contains(row.team, result.away_team)
         THEN IF 2 * result.away_score + row.spread_line.val > 2 * result.home_score
              THEN Some(1) ELSE Some(0)
         ELSE IF 2 * result.home_score + row.spread_line.val > 2 * result.away_score
              THEN Some(1) ELSE Some(0)
    ELSE IF row.bet_type = "total"
    THEN IF row.total_line.isNone THEN row.result
         ELSE IF Contains(row.team, Chars_Over)
         THEN IF 2 * result.total_score > row.total_line.val THEN Some(1) ELSE Some(0)
         ELSE IF 2 * result.total_score < row.total_line.val THEN Some(1) ELSE Some(0)
    ELSE row.result

(* lines 262-326: the file afterwards; a missing file raises in read_excel *)
(* and nothing is saved                                                    *)
RECURSIVE _update_sportsbook_odds(_, _)
_update_sportsbook_odds(file, results) ==
    IF file.isNone \/ results = <<>> THEN file
    ELSE _update_sportsbook_odds(
             Some([i \in 1..Len(file.val) |->
                     IF matching_games(file.val[i], file.val[i].sport, Head(results))
                     THEN [file.val[i] EXCEPT
                             !.result = sportsbook_odds_result(file.val[i], Head(results))]
                     ELSE file.val[i]]),
             Tail(results))

(* lines 342-349: the result cell of a Kalshi row of the game              *)
kalshi_odds_result(row, result) ==
    IF ~row.result.isNone THEN row.result
    ELSE IF row.team.val = result.winning_team
            \/ Contains(row.team.val, result.winning_team)
    THEN Some(1) ELSE Some(0)

RECURSIVE kalshi_odds_after(_, _)
kalshi_odds_after(df, results) ==
    IF results = <<>> THEN df
    ELSE kalshi_odds_after(
             [i \in 1..Len(df) |->
                 IF matching_games(df[i], "nfl", Head(results))
                 THEN [df[i] EXCEPT !.result = kalshi_odds_result(df[i], Head(results))]
                 ELSE df[i]],
             Tail(results))

(* lines 328-356: the file afterwards.  Every row the collector wrote has  *)
(* sport 'nfl'.  A missing file, a frame without a result column           *)
(* (KeyError at line 343) and an empty team cell (TypeError at line 345)   *)
(* end the call in its except clause before anything is saved.             *)
_update_kalshi_odds(file, results) ==
    IF file.isNone THEN file
    ELSE IF \E i \in 1..Len(file.val) :
               "result" \notin DOMAIN file.val[i] \/ file.val[i].team.isNone
    THEN file
    ELSE Some(kalshi_odds_after(file.val, results))

(* lines 236-260: the two files afterwards.  kalshi_file names the file    *)
(* the caller passes: None stands for a name under which no file exists    *)
(* (the default 'kalshi_odds.xlsx'), so the Kalshi file stays as it is.    *)
update_odds_with_results(sportsbook_file, kalshi_file, kalshi_on_disk, nfl_events, mlb_results) ==
    LET nfl_results == get_nfl_results(nfl_events)
        all_results == nfl_results \o mlb_results
    IN  IF all_results = <<>>
        THEN [sb |-> sportsbook_file, kalshi |-> kalshi_on_disk]
        ELSE [sb |-> _update_sportsbook_odds(sportsbook_file, all_results),
              kalshi |-> IF kalshi_file.isNone THEN kalshi_on_disk
                         ELSE _update_kalshi_odds(kalshi_on_disk, all_results)]

(* data_processor.py lines 296-333: the result cell of a row of the game;  *)
(* a comparison with a NaN line is false                                   *)
sportsbook_results_result(row, game_row, away_score, home_score, total_score, winning_team) ==
    IF row.bet_type = "moneyline"
    THEN IF row.team = winning_team THEN Some(1) ELSE Some(0)
    ELSE IF row.bet_type = "spread"
    THEN IF row.team = game_row.away_team
         THEN IF ~row.spread_line.isNone
                 /\ 2 * away_score + row.spread_line.val > 2 * home_score
              THEN Some(1) ELSE Some(0)
         ELSE IF ~row.spread_line.isNone
                 /\ 2 * home_score + row.spread_line.val > 2 * away_score
              THEN Some(1) ELSE Some(0)
    ELSE IF row.bet_type = "total"
    THEN IF row.team = Chars_Over
         THEN IF ~row.total_line.isNone /\ 2 * total_score > row.total_line.val
              THEN Some(1) ELSE Some(0)
         ELSE IF ~row.total_line.isNone /\ 2 * total_score < row.total_line.val
              THEN Some(1) ELSE Some(0)
    ELSE row.result

(* data_processor.py lines 291-339: the file afterwards                    *)
_update_sportsbook_results(file, game_row, away_score, home_score, total_score, winning_team) ==
    IF file.isNone THEN file
    ELSE Some([i \in 1..Len(file.val) |->
                 IF file.val[i].game_id = game_row.game_id
                 THEN [file.val[i] EXCEPT
                         !.result = sportsbook_results_result(file.val[i], game_row,
                                        away_score, home_score, total_score, winning_team)]
                 ELSE file.val[i]])

(* data_processor.py lines 341-357: the file afterwards.  Setting a cell   *)
(* of a column the frame lacks adds the column, NaN in the other rows.     *)
_update_kalshi_results(file, game_row, winning_team) ==
    IF file.isNone THEN file
    ELSE IF \A i \in 1..Len(file.val) : file.val[i].game_id # game_row.game_id
    THEN file
    ELSE Some([i \in 1..Len(file.val) |->
                 LET row == IF "result" \in DOMAIN file.val[i] THEN file.val[i]
                            ELSE file.val[i] @@ [result |-> None]
                 IN  IF row.game_id = game_row.game_id
                     THEN [row EXCEPT !.result = IF row.team = Some(winning_team)
                                                 THEN Some(1) ELSE Some(0)]
                     ELSE row])

(* data_processor.py lines 265-279: the loop over the rows of the sheet;   *)
(* done is [sb, kalshi, updates_made]                                      *)
RECURSIVE entry_rows_applied(_, _)
entry_rows_applied(rows, done) ==
    IF rows = <<>> THEN done
    ELSE LET row == Head(rows)
         IN  IF ~row.winning_team.isNone /\ ~row.away_score.isNone
                /\ ~row.home_score.isNone
             THEN entry_rows_applied(Tail(rows),
                      [sb |-> _update_sportsbook_results(done.sb, row,
                                  row.away_score.val, row.home_score.val,
                                  row.away_score.val + row.home_score.val,
                                  row.winning_team.val),
                       kalshi |-> _update_kalshi_results(done.kalshi, row,
                                                         row.winning_team.val),
                       updates_made |-> done.updates_made + 1])
             ELSE entry_rows_applied(Tail(rows), done)

(* data_processor.py lines 256-289, up to the call of combine_all_data:    *)
(* sheet is the 'Game Results Entry' sheet, None when the workbook has     *)
(* none (read_excel raises, nothing is updated)                            *)
update_results_from_entry_sheet(sheet, sportsbook_file, kalshi_file) ==
    IF sheet.isNone
    THEN [sb |-> sportsbook_file, kalshi |-> kalshi_file, updates_made |-> 0]
    ELSE entry_rows_applied(sheet.val, [sb |-> sportsbook_file,
                                        kalshi |-> kalshi_file,
                                        updates_made |-> 0])

(* data_processor.py lines 281-284 with 508-537: combine_all_data writes   *)
(* the workbook anew with its own sheets when it has matched rows, and     *)
(* the entry sheet is gone                                                 *)
entry_sheet_after(sheet, updates_made, combined) ==
    IF updates_made > 0 /\ combined.raised = "none" /\ ~combined.value.isNone
    THEN None ELSE sheet

(* the game both feeds quote, collected once from one bookmaker: a         *)
(* moneyline, a spread of 7 and a total of 41                              *)
GradeGameId == <<"g","1">>
GradeSpread == 14
GradeTotal  == 82

GradeGame ==
    [id |-> GradeGameId, away_team |-> SbAway, home_team |-> SbHome, commence_time |-> 1,
     bookmakers |-> <<[key |-> "draftkings", markets |-> <<
        [key |-> "h2h",
         outcomes |-> <<[name |-> SbAway, price |-> 130, point |-> None],
                        [name |-> SbHome, price |-> -150, point |-> None]>>],
        [key |-> "spreads",
         outcomes |-> <<[name |-> SbAway, price |-> -110, point |-> Some(-GradeSpread)],
                        [name |-> SbHome, price |-> -110, point |-> Some(GradeSpread)]>>],
        [key |-> "totals",
         outcomes |-> <<[name |-> Chars_Over, price |-> -110, point |-> Some(GradeTotal)],
                        [name |-> Chars_Under, price |-> -110, point |-> Some(GradeTotal)]>>]
     >>]>>]

(* a later meeting of the two teams, already listed                        *)
LaterGamePart == <<"2","6","J","A","N","1","1","J","A","C","K","C">>

(* the Kalshi markets of the game: both moneylines, Jacksonville to win by *)
(* over 7 points, and the total over 44; and the spread market of the      *)
(* later meeting                                                           *)
GradeOffers ==
    <<<<"moneyline",
        KalshiMarket(JoinDash(<<<<"K","X","N","F","L","G","A","M","E">>, GamePart, Chars_JAC>>), NoTitle)>>,
      <<"moneyline",
        KalshiMarket(JoinDash(<<<<"K","X","N","F","L","G","A","M","E">>, GamePart, Chars_KC>>), NoTitle)>>,
      <<"spread",
        KalshiMarket(JoinDash(<<<<"K","X","N","F","L","S","P","R","E","A","D">>, GamePart, Chars_JAC>>),
                     [team |-> Some(TitleJacksonville), line |-> Some(14), over |-> TRUE])>>,
      <<"spread",
        KalshiMarket(JoinDash(<<<<"K","X","N","F","L","S","P","R","E","A","D">>, LaterGamePart, Chars_JAC>>),
                     [team |-> Some(TitleJacksonville), line |-> Some(14), over |-> TRUE])>>,
      <<"total",
        KalshiMarket(JoinDash(<<<<"K","X","N","F","L","T","O","T","A","L">>, GamePart,
                                <<"T","O","T","A","L">>, <<"4","4">>>>), NoTitle)>>>>

(* final scores away-home: a spread push and a total push (24-17), a home  *)
(* win with a total push (17-24), a tie (20-20), a clear away win (28-17)  *)
ScoreLines == {<<24, 17>>, <<17, 24>>, <<20, 20>>, <<28, 17>>}

GameStatuses == {"STATUS_FINAL", "STATUS_IN_PROGRESS"}

NflEvent(status, scores) ==
    [status |-> status,
     competitors |-> <<[displayName |-> SbHome, score |-> scores[2], homeAway |-> "home"],
                       [displayName |-> SbAway, score |-> scores[1], homeAway |-> "away"]>>]

(* what the scoreboard request may deliver: a failure, no event, or the    *)
(* event of the game                                                       *)
NflFeeds ==
    {None, Some(<<>>)}
    \cup {Some(<<NflEvent(status, scores)>>) : status \in GameStatuses, scores \in ScoreLines}

(* a row of the entry sheet as a user fills it in for a game: typed holds  *)
(* the cells typed; status is no column of the sheet, it is the state the  *)
(* game was in when the cells were typed                                   *)
EntryRow(game_id, typed) ==
    [game_id |-> game_id, away_team |-> SbAway, home_team |-> SbHome,
     winning_team |-> typed.winning_team,
     away_score |-> Some(typed.scores[1]),
     home_score |-> IF typed.home_entered THEN Some(typed.scores[2]) ELSE None,
     status |-> typed.status]

(* complete entries, and two partial ones: no winner, no home score        *)
EntriesTyped ==
    [winning_team : {Some(SbAway), Some(SbHome)},
     scores : ScoreLines,
     home_entered : {TRUE},
     status : GameStatuses]
    \cup {[winning_team |-> None, scores |-> <<24, 17>>, home_entered |-> TRUE,
           status |-> "STATUS_IN_PROGRESS"],
          [winning_team |-> Some(SbAway), scores |-> <<24, 17>>, home_entered |-> FALSE,
           status |-> "STATUS_IN_PROGRESS"]}

(* the sheets a workbook may hold: none, or rows for the game under the    *)
(* sportsbook's id, under Kalshi's id, or both                             *)
EntrySheets ==
    {None}
    \cup {Some([i \in 1..Len(ids) |-> EntryRow(ids[i], typed)]) :
            ids \in {<<GradeGameId>>, <<GamePart>>, <<GradeGameId, GamePart>>},
            typed \in EntriesTyped}

NoPass == [path |-> "none", status |-> "none", away_score |-> None, home_score |-> None]

(* the game report a scoreboard pass was given                             *)
FeedReport(events) ==
    IF events.isNone \/ events = Some(<<>>)
    THEN [NoPass EXCEPT !.path = "scoreboard"]
    ELSE LET e == events.val[1]
             of(s) == CHOOSE i \in 1..2 : e.competitors[i].homeAway = s
         IN  [path |-> "scoreboard", status |-> e.status,
              away_score |-> Some(e.competitors[of("away")].score),
              home_score |-> Some(e.competitors[of("home")].score)]

(* the game report an entry-sheet pass was given                           *)
SheetReport(sheet) ==
    IF sheet.isNone THEN [NoPass EXCEPT !.path = "entry sheet"]
    ELSE [path |-> "entry sheet", status |-> sheet.val[1].status,
          away_score |-> sheet.val[1].away_score,
          home_score |-> sheet.val[1].home_score]

GradeInit ==
    /\ sportsbook_odds_xlsx = collect_all_markets(None, Some(<<GradeGame>>)).value
    /\ kalshi_all_markets_xlsx =
           collect_all_kalshi_markets_to_excel(None, AllMarkets(GradeOffers)).value
    /\ results_entry_sheet \in EntrySheets
    /\ grading_pass = NoPass
    /\ cc_ret = NotCalled
    /\ cc_non_matched = None
    /\ dp_ret = NotCalled
    /\ CodecIdle
    /\ EvIdle

UpdateOddsWithResults ==
    /\ \E nfl_events \in NflFeeds, kalshi_file \in {None, Some("kalshi_all_markets.xlsx")} :
          LET done == update_odds_with_results(sportsbook_odds_xlsx, kalshi_file,
                                               kalshi_all_markets_xlsx, nfl_events, <<>>)
          IN  /\ sportsbook_odds_xlsx' = done.sb
              /\ kalshi_all_markets_xlsx' = done.kalshi
              /\ grading_pass' = FeedReport(nfl_events)
    /\ UNCHANGED <<results_entry_sheet, cc_ret, cc_non_matched, dp_ret, codec_vars, ev_vars>>

UpdateResultsFromEntrySheet ==
    /\ LET done == update_results_from_entry_sheet(results_entry_sheet,
                       sportsbook_odds_xlsx, kalshi_all_markets_xlsx)
       IN  /\ sportsbook_odds_xlsx' = done.sb
           /\ kalshi_all_markets_xlsx' = done.kalshi
           /\ dp_ret' = IF done.updates_made > 0
                        THEN combine_all_data(done.sb, done.kalshi) ELSE dp_ret
           /\ results_entry_sheet' =
                  entry_sheet_after(results_entry_sheet, done.updates_made, dp_ret')
    /\ grading_pass' = SheetReport(results_entry_sheet)
    /\ UNCHANGED <<cc_ret, cc_non_matched, codec_vars, ev_vars>>

GradeNext ==
    \/ UpdateOddsWithResults
    \/ UpdateResultsFromEntrySheet

SpecGrade == GradeInit /\ [][GradeNext]_vars

---------------------------------------------------------------------------
(* Functions applied one at a time to bounded inputs: the ticker parser    *)
(* of the Kalshi collector, extract_games_from_markets, the rows of one    *)
(* Kalshi market, and calculate_ev.                                        *)

(* the codes of the team table of _convert_team_abbrev_to_full             *)
TeamCodes == {p[1] : p \in team_mapping_full}

(* tokens that are no code of the table                                    *)
OtherTokens == {<<"X","X","X">>, <<"Q">>, <<>>}

GameDate == <<"2","5","S","E","P","2","8">>

(* the moneyline ticker of the game away at home                           *)
GameTicker(away, home) ==
    JoinDash(<<<<"K","X","N","F","L","G","A","M","E">>, GameDate \o away \o home, away>>)

UnitInit ==
    /\ codec_call \in [fn : {"none"}, team_odds : {-110, 130}, opponent_odds : {-110},
                       odds_list : {<<>>}, args : {<<>>}]
    /\ codec_ret = Returned(Zero)
    /\ EvIdle
    /\ MatchIdle

Call_ticker_game ==
    /\ codec_call.fn = "none"
    /\ \E away \in TeamCodes \cup OtherTokens, home \in TeamCodes \cup OtherTokens :
          /\ codec_call' = [codec_call EXCEPT !.fn = "ticker_game",
                                              !.args = <<away, home>>]
          /\ codec_ret' = Returned(ticker_game(GameTicker(away, home)))
    /\ UNCHANGED <<ev_vars, match_vars>>

Call_extract_games_from_markets ==
    /\ codec_call.fn = "none"
    /\ \E markets \in SeqsUpTo(EvMarkets, MaxEvMarkets) :
          /\ codec_call' = [codec_call EXCEPT !.fn = "extract_games_from_markets",
                                              !.args = markets]
          /\ codec_ret' = Returned(extract_games_from_markets(markets))
    /\ UNCHANGED <<ev_vars, match_vars>>

(* the prices a market may carry: no bid, bid and ask inside the range, or *)
(* a settled market at 100                                                 *)
UnitPrices == {<<0, 48>>, <<47, 48>>, <<99, 100>>, <<100, 100>>}

Call_kalshi_market_rows ==
    /\ codec_call.fn = "none"
    /\ \E offer \in {o \in KalshiOffers : o[1] # "spread" \/ ~o[2].title.team.isNone},
          prices \in UnitPrices :
          LET market == [offer[2] EXCEPT !.yes_bid = prices[1], !.yes_ask = prices[2]]
          IN  /\ codec_call' = [codec_call EXCEPT !.fn = "kalshi_market_rows",
                                                  !.args = <<offer[1], market>>]
              /\ codec_ret' = kalshi_market_rows(offer[1], market)
    /\ UNCHANGED <<ev_vars, match_vars>>

UnitNext ==
    \/ Call_ticker_game
    \/ Call_extract_games_from_markets
    \/ Call_kalshi_market_rows
    \/ Call_calculate_ev

SpecUnit == UnitInit /\ [][UnitNext]_vars

---------------------------------------------------------------------------
(* Properties of the probability codec, checked under SpecCodec.          *)

(* The implied probability of American odds, as the design states it.      *)
ImpliedProb(o) == IF o > 0 THEN Rat(100, o + 100) ELSE Rat(-o, 100 - o)

ProcessFns == {"_process_moneyline_market", "_process_spread_market",
               "_process_totals_market"}

TwoOutcomeCall ==
    /\ codec_call.fn \in ProcessFns
    /\ Len(codec_call.odds_list) = 2

CallTotal ==
    RatAdd(ImpliedProb(codec_call.team_odds), ImpliedProb(codec_call.opponent_odds))

(* the fair share of side i (1: team, 2: opponent) of the called market    *)
CallFair(i) ==
    RatDiv(ImpliedProb(IF i = 1 THEN codec_call.team_odds ELSE codec_call.opponent_odds),
           CallTotal)

Near(a, b) == RatLe(RatSub(a, b), Rat(1, 20000)) /\ RatLe(RatSub(b, a), Rat(1, 20000))

C3_DegenerateUnchanged ==
    /\ (codec_call.fn = "remove_vig_from_odds" /\ RatLe(CallTotal, One)) =>
          /\ codec_ret.value.true_probability = ImpliedProb(codec_call.team_odds)
          /\ codec_ret.value.vig_percent = Zero
    /\ (/\ TwoOutcomeCall
        /\ RatLe(CallTotal, One)
        /\ codec_call.team_odds # 0
        /\ codec_call.opponent_odds # 0) =>
          /\ codec_ret.raised = "none"
          /\ Len(codec_ret.value) = 2
          /\ \A i \in 1..2 :
                /\ codec_ret.value[i].implied_prob_vig_adj
                     = codec_ret.value[i].implied_prob_raw
                /\ codec_ret.value[i].market_vig = Zero

(* C4 as stated: odds of 0 are rejected with an invalid-odds error, by    *)
(* american_to_probability and by _calculate_average_odds.                *)
C4_ZeroOddsRejected ==
    /\ (codec_call.fn = "american_to_probability" /\ codec_call.team_odds = 0) =>
          codec_ret.raised = "InvalidOddsError"
    /\ (/\ codec_call.fn = "_calculate_average_odds"
        /\ \E i \in 1..Len(codec_call.odds_list) : codec_call.odds_list[i] = 0) =>
          codec_ret.raised = "InvalidOddsError"

(* C5 as stated: every odds value o # 0 comes back from                   *)
(* _calculate_average_odds([o]) within 1 of o.                            *)
C5_RoundTripAll ==
    (/\ codec_call.fn = "_calculate_average_odds"
     /\ codec_call.odds_list = <<codec_call.team_odds>>
     /\ codec_call.team_odds # 0) =>
        /\ codec_ret.raised = "none"
        /\ Abs(codec_ret.value - codec_call.team_odds) <= 1

(* C5 amended: every American odds value o other than +100 (o <= -100 or  *)
(* o > 100) comes back from _calculate_average_odds([o]) within 1 of o;   *)
(* +100, whose probability is exactly 0.5, comes back as -100.            *)
C5_RoundTrip ==
    (/\ codec_call.fn = "_calculate_average_odds"
     /\ codec_call.odds_list = <<codec_call.team_odds>>) =>
        /\ (codec_call.team_odds <= -100 \/ codec_call.team_odds > 100) =>
              /\ codec_ret.raised = "none"
              /\ Abs(codec_ret.value - codec_call.team_odds) <= 1
        /\ codec_call.team_odds = 100 => codec_ret = Returned(-100)

(* C5 witness: a favourite price went through the round trip and came    *)
(* back one short of itself.                                              *)
C5_Witness ==
    /\ codec_call.fn = "_calculate_average_odds"
    /\ codec_call.odds_list = <<-150>>
    /\ codec_ret = Returned(-149)

---------------------------------------------------------------------------
(* Properties of the EV path, checked under SpecEV.                       *)


(* the code of the other team of the game the feed priced                 *)
OpponentCode(code) ==
    LET g == ev_raw_odds.val[1]
        h == DictGet(name_to_code, g.home_team, "")
        a == DictGet(name_to_code, g.away_team, "")
    IN  IF code = h THEN a ELSE h

(* the vig-removed probability of a side priced o against a side priced q *)
FairProb(o, q) ==
    LET total == RatAdd(ImpliedProb(o), ImpliedProb(q))
    IN  IF RatGt(total, One) THEN RatDiv(ImpliedProb(o), total) ELSE ImpliedProb(o)

(* C1 as stated: every opportunity of a game priced by one bookmaker has  *)
(* edge = fair_probability - price/100, fair_probability being the        *)
(* vig-removed probability of the two-sided sportsbook market.            *)
C1_EdgeUsesFairProbability ==
    (/\ ev_pc = "done"
     /\ ev_opportunities.raised = "none"
     /\ ~ev_opportunities.value.isNone
     /\ ~ev_raw_odds.isNone
     /\ Len(ev_raw_odds.val[1].bookmakers) = 1) =>
        \A i \in 1..Len(ev_opportunities.value.val) :
            LET op == ev_opportunities.value.val[i]
                sb == ev_sportsbook_odds.value.val
            IN  op.edge = RatSub(FairProb(sb[op.team], sb[OpponentCode(op.team)]),
                                 Rat(op.kalshi_price_cents, 100))

---------------------------------------------------------------------------
(* Properties of the two matchers, checked under Spec.                    *)

(* the <<Kalshi row, sportsbook row>> pairs each matcher produced          *)
CcPairs ==
    IF cc_ret.raised # "none" THEN {}
    ELSE {<<kalshi_all_markets_xlsx.val[cc_ret.value[i].Kalshi_Row],
            sportsbook_odds_xlsx.val[cc_ret.value[i].Sportsbook_Row]>> :
             i \in 1..Len(cc_ret.value)}

DpPairs ==
    IF dp_ret.raised # "none" \/ dp_ret.value.isNone THEN {}
    ELSE {<<kalshi_all_markets_xlsx.val[dp_ret.value.val[i].kalshi_row_id],
            sportsbook_odds_xlsx.val[dp_ret.value.val[i].sb_row_id]>> :
             i \in 1..Len(dp_ret.value.val)}

MatchedPairs == CcPairs \cup DpPairs

(* the line converter of the design, on half-points                        *)
ConvertedSpread(line) == IF line % 2 = 0 THEN line - 1 ELSE line

(* C6 as stated: every spread pair has a sportsbook line whose magnitude  *)
(* is the Kalshi line converted (whole N to N - 0.5, half-point           *)
(* unchanged), and every total pair has the sportsbook line T - 0.5, in   *)
(* both matchers.                                                          *)
C6_LineConversion ==
    \A pair \in MatchedPairs :
        /\ pair[1].bet_type = "spread" =>
              /\ ~pair[1].line_value.isNone
              /\ ~pair[2].spread_line.isNone
              /\ Abs(pair[2].spread_line.val) = ConvertedSpread(pair[1].line_value.val)
        /\ pair[1].bet_type = "total" =>
              /\ ~pair[1].line_value.isNone
              /\ pair[2].total_line = Some(pair[1].line_value.val - 1)

(* C7 as stated: a 'Yes' spread quote is paired only with negative        *)
(* sportsbook spreads and a 'No' spread quote only with positive ones.    *)
C7_SpreadSign ==
    \A pair \in MatchedPairs :
        pair[1].bet_type = "spread" =>
            /\ pair[1].side = "Yes" => pair[2].spread_line.val < 0
            /\ pair[1].side = "No"  => pair[2].spread_line.val > 0

(* C8 as stated: a 'Yes' total quote is paired only with 'Over' rows and  *)
(* a 'No' total quote only with 'Under' rows, so no total quote is paired *)
(* with both rows of one bookmaker's market.                              *)
C8_TotalSide ==
    \A pair \in MatchedPairs :
        pair[1].bet_type = "total" =>
            /\ pair[1].side = "Yes" => pair[2].team = Chars_Over
            /\ pair[1].side = "No"  => pair[2].team = Chars_Under

(* the sportsbook row is for the team the Kalshi spread row names (a      *)
(* city or a full name)                                                    *)
SameTeamSide(kalshi_row, sb_row) == Contains(sb_row.team, kalshi_row.team.val)

(* C9 as stated: every spread pair pairs the Kalshi quote with a          *)
(* sportsbook spread row for the same team, never the other team's row.   *)
C9_SpreadTeamSide ==
    \A pair \in MatchedPairs :
        pair[1].bet_type = "spread" => SameTeamSide(pair[1], pair[2])

(* C10 as stated: every moneyline pair of a quote whose team is a code of *)
(* the static team table pairs it with the sportsbook row of the          *)
(* franchise that code denotes.                                            *)
C10_MoneylineTeamSide ==
    \A pair \in MatchedPairs :
        (/\ pair[1].bet_type = "moneyline"
         /\ \E e \in team_mapping_full : e[1] = pair[1].team.val) =>
            pair[2].team = _convert_team_abbrev_to_full(pair[1].team.val)

(* the pairs each matcher produced, in the order of its output: the       *)
(* Row_IDs of the two rows, the bookmaker and the price the pair carries  *)
CcPairSeq ==
    IF cc_ret.raised # "none" THEN <<>>
    ELSE [i \in 1..Len(cc_ret.value) |->
             [kalshi_id |-> cc_ret.value[i].Kalshi_Row,
              sb_id     |-> cc_ret.value[i].Sportsbook_Row,
              bookmaker |-> cc_ret.value[i].Bookmaker,
              odds      |-> cc_ret.value[i].Sportsbook_American_Odds]]

DpPairSeq ==
    IF dp_ret.raised # "none" \/ dp_ret.value.isNone THEN <<>>
    ELSE [i \in 1..Len(dp_ret.value.val) |->
             [kalshi_id |-> dp_ret.value.val[i].kalshi_row_id,
              sb_id     |-> dp_ret.value.val[i].sb_row_id,
              bookmaker |-> dp_ret.value.val[i].bookmaker,
              odds      |-> dp_ret.value.val[i].sportsbook_odds]]

(* the pairs of pairs that join the Kalshi moneyline row r with a         *)
(* sportsbook moneyline row of r's own team                                *)
OwnTeamPairs(pairs, r) ==
    {i \in 1..Len(pairs) :
        /\ pairs[i].kalshi_id = r
        /\ sportsbook_odds_xlsx.val[pairs[i].sb_id].team
             = _convert_team_abbrev_to_full(kalshi_all_markets_xlsx.val[r].team.val)}

(* the bookmakers that quote the moneyline of r's team                     *)
BookmakersQuoting(r) ==
    {sportsbook_odds_xlsx.val[j].bookmaker : j \in
        {j \in 1..Len(sportsbook_odds_xlsx.val) :
            /\ sportsbook_odds_xlsx.val[j].bet_type = "moneyline"
            /\ sportsbook_odds_xlsx.val[j].team
                 = _convert_team_abbrev_to_full(kalshi_all_markets_xlsx.val[r].team.val)}}

(* a matched moneyline row r has one pair per bookmaker, each with that   *)
(* bookmaker's price                                                       *)
OnePairPerBookmaker(pairs, r) ==
    OwnTeamPairs(pairs, r) # {} =>
        /\ Cardinality(OwnTeamPairs(pairs, r)) = Cardinality(BookmakersQuoting(r))
        /\ \A i \in OwnTeamPairs(pairs, r) :
              /\ pairs[i].odds = sportsbook_odds_xlsx.val[pairs[i].sb_id].american_odds
              /\ pairs[i].bookmaker = sportsbook_odds_xlsx.val[pairs[i].sb_id].bookmaker

(* C11 as stated: a Kalshi moneyline quote matched against the moneyline  *)
(* quotes of k bookmakers for its team yields exactly k pairs, one per    *)
(* bookmaker and each with that bookmaker's own price, also when the      *)
(* sportsbook file has accumulated several collection runs.               *)
C11_OnePairPerBookmaker ==
    (~kalshi_all_markets_xlsx.isNone /\ ~sportsbook_odds_xlsx.isNone) =>
        \A r \in 1..Len(kalshi_all_markets_xlsx.val) :
            (/\ kalshi_all_markets_xlsx.val[r].bet_type = "moneyline"
             /\ ~kalshi_all_markets_xlsx.val[r].team.isNone) =>
                /\ OnePairPerBookmaker(CcPairSeq, r)
                /\ OnePairPerBookmaker(DpPairSeq, r)


(* the Kalshi file without the rows of Row_IDs R                           *)
KalshiWithout(R) ==
    LET ids == Ascending((1..Len(kalshi_all_markets_xlsx.val)) \ R)
    IN  Some([j \in 1..Len(ids) |-> kalshi_all_markets_xlsx.val[ids[j]]])

(* what a matcher makes of the sportsbook file and a Kalshi file: the     *)
(* <<Kalshi row, sportsbook Row_ID>> pairs, or the exception               *)
CcOutcome(kalshi_file) ==
    LET ret == create_comprehensive_raw_data(sportsbook_odds_xlsx, kalshi_file)
    IN  IF ret.raised # "none" THEN [raised |-> ret.raised, pairs |-> {}]
        ELSE [raised |-> "none",
              pairs |-> {<<kalshi_file.val[ret.value[i].Kalshi_Row],
                           ret.value[i].Sportsbook_Row>> : i \in 1..Len(ret.value)}]

DpOutcome(kalshi_file) ==
    LET ret == combine_all_data(sportsbook_odds_xlsx, kalshi_file)
    IN  IF ret.raised # "none" THEN [raised |-> ret.raised, pairs |-> {}]
        ELSE IF ret.value.isNone THEN [raised |-> "none", pairs |-> {}]
        ELSE [raised |-> "none",
              pairs |-> {<<kalshi_file.val[ret.value.val[i].kalshi_row_id],
                           ret.value.val[i].sb_row_id>> : i \in 1..Len(ret.value.val)}]

(* the matcher's output names the Kalshi row r with a reason               *)
CcSkipRecorded(r) ==
    /\ ~cc_non_matched.isNone
    /\ \E i \in 1..Len(cc_non_matched.val) :
          /\ cc_non_matched.val[i].Row_ID = r
          /\ cc_non_matched.val[i].Potential_Issue = "No line_value"

DpSkipRecorded(r) ==
    /\ dp_ret.raised = "none"
    /\ ~dp_ret.value.isNone
    /\ \E i \in 1..Len(dp_ret.value.val) :
          /\ dp_ret.value.val[i].kalshi_row_id = r
          /\ "skip_reason" \in DOMAIN dp_ret.value.val[i]

(* the spread and total rows of the Kalshi file that have no line_value    *)
MissingLineRows ==
    {r \in 1..Len(kalshi_all_markets_xlsx.val) :
        /\ kalshi_all_markets_xlsx.val[r].bet_type \in {"spread", "total"}
        /\ kalshi_all_markets_xlsx.val[r].line_value.isNone}

(* C12 as stated: a spread or total quote without a line value yields no  *)
(* pair, a skip reason is recorded for it, and the other quotes of the    *)
(* batch are matched as they are without it, in both matchers.            *)
C12_MissingLineSkipped ==
    (~kalshi_all_markets_xlsx.isNone /\ ~sportsbook_odds_xlsx.isNone) =>
        \A r \in MissingLineRows :
            /\ cc_ret # NotCalled =>
                  /\ \A i \in 1..Len(CcPairSeq) : CcPairSeq[i].kalshi_id # r
                  /\ CcSkipRecorded(r)
                  /\ CcOutcome(kalshi_all_markets_xlsx) = CcOutcome(KalshiWithout({r}))
            /\ dp_ret # NotCalled =>
                  /\ \A i \in 1..Len(DpPairSeq) : DpPairSeq[i].kalshi_id # r
                  /\ DpSkipRecorded(r)
                  /\ DpOutcome(kalshi_all_markets_xlsx) = DpOutcome(KalshiWithout({r}))

(* the rows of the Kalshi file whose team cell is empty                    *)
MalformedRows ==
    {r \in 1..Len(kalshi_all_markets_xlsx.val) :
        kalshi_all_markets_xlsx.val[r].team.isNone}

(* C13 as stated: with a malformed record in the batch each matcher still *)
(* completes and returns the pairs of the well-formed quotes.             *)
C13_BadRecordNotFatal ==
    (/\ ~kalshi_all_markets_xlsx.isNone
     /\ ~sportsbook_odds_xlsx.isNone
     /\ MalformedRows # {}) =>
        /\ cc_ret # NotCalled =>
              /\ cc_ret.raised = "none"
              /\ CcOutcome(kalshi_all_markets_xlsx) = CcOutcome(KalshiWithout(MalformedRows))
        /\ dp_ret # NotCalled =>
              /\ dp_ret.raised = "none"
              /\ DpOutcome(kalshi_all_markets_xlsx) = DpOutcome(KalshiWithout(MalformedRows))


---------------------------------------------------------------------------
(* Properties of the EV engine, checked under SpecCodec.                  *)

(* C14: calculate_ev returns cost = price/100 * bet_amount,               *)
(* expected_payout = probability * bet_amount, ev = expected_payout -     *)
(* cost, ev_percent = ev / cost * 100, or 0 when the cost is 0, and       *)
(* is_positive_ev = (ev > 0); it raises nothing.                          *)
C14_EvFormulas ==
    codec_call.fn = "calculate_ev" =>
        LET price == codec_call.args[1]
            bet   == codec_call.args[2]
            r     == codec_ret.value
            prob  == ImpliedProb(codec_call.team_odds)
        IN  /\ codec_ret.raised = "none"
            /\ r.cost = RatMul(Rat(price, 100), Int2Rat(bet))
            /\ r.expected_payout = RatMul(prob, Int2Rat(bet))
            /\ r.ev_dollars = RatSub(r.expected_payout, r.cost)
            /\ r.cost # Zero =>
                  r.ev_percent = RatMul(RatDiv(r.ev_dollars, r.cost), Int2Rat(100))
            /\ r.cost = Zero => r.ev_percent = Zero
            /\ r.is_positive_ev = RatGt(r.ev_dollars, Zero)

(* C14 witness: a free contract was evaluated for the default stake and   *)
(* got ev_percent 0 with a positive EV.                                   *)
C14_Witness ==
    /\ codec_call.fn = "calculate_ev"
    /\ codec_call.args = <<0, DefaultBetAmount>>
    /\ codec_call.team_odds = -110
    /\ codec_ret.raised = "none"
    /\ codec_ret.value.ev_percent = Zero
    /\ codec_ret.value.is_positive_ev

(* the place of an opportunity in the list before the sort                 *)
PlaceBefore(op) == CHOOSE k \in 1..Len(codec_call.args) : codec_call.args[k] = op

(* C15: the sorted list is a permutation of the computed opportunities,   *)
(* in descending order of ev_percent, and opportunities of equal          *)
(* ev_percent keep their input order.                                     *)
C15_Ranking ==
    codec_call.fn = "opportunities.sort" =>
        LET before == codec_call.args
            after  == codec_ret.value
        IN  /\ codec_ret.raised = "none"
            /\ Len(after) = Len(before)
            /\ \A k \in 1..Len(before) : \E j \in 1..Len(after) : after[j] = before[k]
            /\ \A i, j \in 1..Len(after) :
                  i < j =>
                     /\ RatLe(after[j].ev_percent, after[i].ev_percent)
                     /\ after[i].ev_percent = after[j].ev_percent =>
                           PlaceBefore(after[i]) < PlaceBefore(after[j])

(* C15 witness: the sort moved the last opportunity to the front and left *)
(* two of equal ev_percent in their input order.                          *)
C15_Witness ==
    /\ codec_call.fn = "opportunities.sort"
    /\ codec_ret.value[1] = codec_call.args[3]
    /\ codec_ret.value[2] = codec_call.args[1]
    /\ codec_ret.value[3] = codec_call.args[2]
    /\ codec_ret.value[2].ev_percent = codec_ret.value[3].ev_percent

---------------------------------------------------------------------------
(* Properties of grading, checked under SpecGrade.  A quote is a row of    *)
(* one of the two files; the grading passes neither add, remove nor        *)
(* reorder rows, so a row keeps its position.                              *)

(* the result cell of a row: empty too when the frame has no such column   *)
ResultCell(row) == IF "result" \in DOMAIN row THEN row.result ELSE None

Rows(file) == IF file.isNone THEN <<>> ELSE file.val

(* the rows of a file whose result cell a step changes                     *)
GradedNow(before, after) ==
    {i \in 1..Len(Rows(after)) :
        i > Len(Rows(before)) \/ ResultCell(Rows(after)[i]) # ResultCell(Rows(before)[i])}

StaysGraded(before, after) ==
    \A i \in 1..Len(Rows(before)) :
        ~ResultCell(Rows(before)[i]).isNone
            => /\ i <= Len(Rows(after))
               /\ ResultCell(Rows(after)[i]) = ResultCell(Rows(before)[i])

(* C16: grading is terminal.  Once the result cell of a quote is set, no   *)
(* later grading pass, on the same game results or on different ones,      *)
(* changes it.                                                             *)
C16_GradingTerminal ==
    [][/\ StaysGraded(sportsbook_odds_xlsx, sportsbook_odds_xlsx')
       /\ StaysGraded(kalshi_all_markets_xlsx, kalshi_all_markets_xlsx')]_vars

(* the score of a side in the game report of a pass, and of the other side *)
Score(side, pass) == IF side = "away" THEN pass.away_score.val ELSE pass.home_score.val

Other(side) == IF side = "away" THEN "home" ELSE "away"

(* the side of a game a team name stands for                               *)
SideOf(name, row) ==
    IF name = row.away_team THEN "away"
    ELSE IF name = row.home_team THEN "home" ELSE "none"

(* the side has strictly the higher score in the game report               *)
Won(side, pass) ==
    /\ side \in {"away", "home"}
    /\ ~pass.away_score.isNone /\ ~pass.home_score.isNone
    /\ Score(side, pass) > Score(Other(side), pass)

(* the side a moneyline row quotes: a sportsbook row names the team, a     *)
(* Kalshi row carries its code                                             *)
SbMoneylineSide(row) == SideOf(row.team, row)

KalshiMoneylineSide(row) ==
    IF row.team.isNone THEN "none"
    ELSE SideOf(_convert_team_abbrev_to_full(row.team.val), row)

(* C17: moneyline grading.  The winner of a game is the side with the      *)
(* strictly higher score; a moneyline quote that a pass grades is graded 1 *)
(* if and only if its side is that winner and 0 otherwise, so on a tie     *)
(* both quotes are graded 0.                                               *)
C17_MoneylineGrading ==
    [][/\ \A i \in GradedNow(sportsbook_odds_xlsx, sportsbook_odds_xlsx') :
             LET row == sportsbook_odds_xlsx'.val[i]
             IN  row.bet_type = "moneyline"
                   => row.result = IF Won(SbMoneylineSide(row), grading_pass')
                                   THEN Some(1) ELSE Some(0)
       /\ \A i \in GradedNow(kalshi_all_markets_xlsx, kalshi_all_markets_xlsx') :
             LET row == kalshi_all_markets_xlsx'.val[i]
             IN  row.bet_type = "moneyline"
                   => row.result = IF Won(KalshiMoneylineSide(row), grading_pass')
                                   THEN Some(1) ELSE Some(0)]_vars

(* a sportsbook spread or total row lands exactly on its line              *)
IsPush(row, pass) ==
    /\ ~pass.away_score.isNone /\ ~pass.home_score.isNone
    /\ \/ /\ row.bet_type = "spread"
          /\ ~row.spread_line.isNone
          /\ SideOf(row.team, row) # "none"
          /\ 2 * Score(SideOf(row.team, row), pass) + row.spread_line.val
                = 2 * Score(Other(SideOf(row.team, row)), pass)
       \/ /\ row.bet_type = "total"
          /\ ~row.total_line.isNone
          /\ 2 * (pass.away_score.val + pass.home_score.val) = row.total_line.val

(* C18: a push is a third state.  A spread or total quote that lands       *)
(* exactly on its line is graded neither as a win (1) nor as a loss (0).   *)
C18_PushIsThirdState ==
    [][\A i \in GradedNow(sportsbook_odds_xlsx, sportsbook_odds_xlsx') :
          LET row == sportsbook_odds_xlsx'.val[i]
          IN  IsPush(row, grading_pass') => row.result \notin {Some(0), Some(1)}]_vars

(* the rule of a sportsbook spread or total row off its line: the side     *)
(* covers the spread, the total goes over or under the line                *)
SbLineWon(row, pass) ==
    IF row.bet_type = "spread"
    THEN 2 * Score(SideOf(row.team, row), pass) + row.spread_line.val
            > 2 * Score(Other(SideOf(row.team, row)), pass)
    ELSE IF row.team = Chars_Over
         THEN 2 * (pass.away_score.val + pass.home_score.val) > row.total_line.val
         ELSE 2 * (pass.away_score.val + pass.home_score.val) < row.total_line.val

(* the rule of a Kalshi spread or total row: the Yes side of a spread wins *)
(* when the team of the ticker wins by over the line, the Yes side of a    *)
(* total when the points go over the line; the No side wins otherwise      *)
KalshiLineWon(row, pass) ==
    LET yes_side == SideOf(_convert_team_abbrev_to_full(SplitOn(row.ticker, "-")[3]), row)
        yes_won  == IF row.bet_type = "spread"
                    THEN 2 * (Score(yes_side, pass) - Score(Other(yes_side), pass))
                            > row.line_value.val
                    ELSE 2 * (pass.away_score.val + pass.home_score.val)
                            > row.line_value.val
    IN  IF row.side = "Yes" THEN yes_won ELSE ~yes_won

(* C19: every quote is graded by the rule of its own bet type.  A spread   *)
(* or total quote that a pass grades, a Kalshi one included, is graded by  *)
(* the spread or total rule and not by the moneyline rule.                 *)
C19_GradedByOwnRule ==
    [][/\ \A i \in GradedNow(sportsbook_odds_xlsx, sportsbook_odds_xlsx') :
             LET row == sportsbook_odds_xlsx'.val[i]
             IN  row.bet_type \in {"spread", "total"} /\ ~IsPush(row, grading_pass')
                   => row.result = IF SbLineWon(row, grading_pass')
                                   THEN Some(1) ELSE Some(0)
       /\ \A i \in GradedNow(kalshi_all_markets_xlsx, kalshi_all_markets_xlsx') :
             LET row == kalshi_all_markets_xlsx'.val[i]
             IN  row.bet_type \in {"spread", "total"}
                   => row.result = IF KalshiLineWon(row, grading_pass')
                                   THEN Some(1) ELSE Some(0)]_vars

(* C20: no grading before the game is final.  A pass sets the result of a  *)
(* quote only from a game report whose status is FINAL.                    *)
C20_OnlyFinalGraded ==
    [][GradedNow(sportsbook_odds_xlsx, sportsbook_odds_xlsx') # {}
         \/ GradedNow(kalshi_all_markets_xlsx, kalshi_all_markets_xlsx') # {}
       => grading_pass'.status = "STATUS_FINAL"]_vars

---------------------------------------------------------------------------
(* Properties of single functions, checked under SpecUnit.                 *)

(* C21: game identifier parsing.  For every ordered pair of distinct codes *)
(* of the team table, the identifier date+away+home is parsed to exactly   *)
(* (away, home); for any other identifier both teams are the sentinel UNK; *)
(* no team returned is neither a code of the table nor UNK.                *)
C21_GameIdParsing ==
    codec_call.fn = "ticker_game" =>
        LET away == codec_call.args[1]
            home == codec_call.args[2]
            game == codec_ret.value
        IN  /\ (away \in TeamCodes /\ home \in TeamCodes /\ away # home)
                  => (game.away_team = away /\ game.home_team = home)
            /\ ~(away \in TeamCodes /\ home \in TeamCodes)
                  => (game.away_team = UNK /\ game.home_team = UNK)
            /\ {game.away_team, game.home_team} \subseteq TeamCodes \cup {UNK}

(* C22: exchange price range.  A price outside 1..99 cents is signalled as *)
(* invalid and the quote is excluded: the collector adds no row for a      *)
(* market whose bid is outside the range, and calculate_ev returns no      *)
(* result for a price outside the range.                                   *)
C22_PriceRange ==
    /\ (codec_call.fn = "kalshi_market_rows" /\ codec_call.args[2].yes_bid \notin 1..99)
          => (codec_ret.raised # "none" \/ codec_ret.value = <<>>)
    /\ (codec_call.fn = "calculate_ev" /\ codec_call.args[1] \notin 1..99)
          => codec_ret.raised # "none"

---------------------------------------------------------------------------
(* Properties of the quote logs, checked under Spec.                       *)

(* a row without its result cell                                           *)
RawFields(row) == [f \in (DOMAIN row) \ {"result"} |-> row[f]]

(* every row of the log before a step is in the log after it, raw fields   *)
(* unchanged                                                               *)
RowsKept(before, after) ==
    \A i \in 1..Len(Rows(before)) :
        \E j \in 1..Len(Rows(after)) :
            RawFields(Rows(after)[j]) = RawFields(Rows(before)[i])

(* C23: the quote logs are append-only.  After any step, every row that a  *)
(* source's log held before is still in that log with all fields other     *)
(* than the result unchanged.                                              *)
C23_LogsAppendOnly ==
    [][/\ RowsKept(sportsbook_odds_xlsx, sportsbook_odds_xlsx')
       /\ RowsKept(kalshi_all_markets_xlsx, kalshi_all_markets_xlsx')]_vars

---------------------------------------------------------------------------
(* Properties of the programs around find_ev_opportunities, checked under  *)
(* SpecEV.                                                                 *)

(* the opportunities find_ev_opportunities returned, <<>> when it returned *)
(* none                                                                    *)
Opportunities ==
    IF ev_opportunities.raised = "none" /\ ~ev_opportunities.value.isNone
    THEN ev_opportunities.value.val ELSE <<>>

(* C24: matched quotes belong to the same contest.  The sportsbook feed    *)
(* quotes the game EvGameId only, so every EV opportunity is an exchange   *)
(* quote of that game.                                                     *)
C24_SameContest ==
    ev_pc = "done" =>
        \A i \in 1..Len(Opportunities) : Opportunities[i].game_id = EvGameId

(* the rows create_paper_trades wrote, <<>> when it wrote none             *)
PaperTrades ==
    IF paper_call.ret.raised = "none" /\ ~paper_call.ret.value.isNone
    THEN paper_call.ret.value.val ELSE <<>>

(* the opportunities a row can come from                                   *)
OpportunitiesOf(trade) ==
    {i \in 1..Len(Opportunities) :
        /\ Opportunities[i].game_id = trade.Game_ID
        /\ Opportunities[i].team = trade.Team}

(* C25: paper trades respect the caller's limits.  Every row written by    *)
(* create_paper_trades comes from an opportunity that is positive-EV with  *)
(* ev_percent not below min_ev_percent, its Bet_Amount does not exceed     *)
(* max_bet_amount, and its Max_Win plus Max_Loss equals its Bet_Amount.    *)
C25_PaperTradeLimits ==
    \A t \in 1..Len(PaperTrades) :
        LET trade == PaperTrades[t]
        IN  /\ OpportunitiesOf(trade) # {}
            /\ \A i \in OpportunitiesOf(trade) :
                  /\ Opportunities[i].is_positive_ev
                  /\ RatLe(Int2Rat(paper_call.min_ev_percent), Opportunities[i].ev_percent)
            /\ trade.Bet_Amount <= paper_call.max_bet_amount
            /\ RatAdd(trade.Max_Win, trade.Max_Loss) = Int2Rat(trade.Bet_Amount)

(* a row was written at the threshold 2 for an opportunity that a         *)
(* threshold of 30 would have excluded                                     *)
C25_Witness ==
    /\ Len(PaperTrades) >= 1
    /\ paper_call.min_ev_percent = 2
    /\ RatLt(Opportunities[1].ev_percent, Int2Rat(30))

(* C28: the default command always completes.  When main runs without a    *)
(* command and find_ev_opportunities returned a non-empty list, main       *)
(* raises nothing, and the Best EV it reports is the positive-EV           *)
(* opportunity with the greatest ev_percent.                               *)
C28_DefaultCompletes ==
    (main_ret # NotCalled /\ Opportunities # <<>>) =>
        /\ main_ret.raised = "none"
        /\ ~main_ret.value.isNone =>
              \E i \in 1..Len(Opportunities) :
                  /\ Opportunities[i].is_positive_ev
                  /\ Opportunities[i].team = main_ret.value.val.team
                  /\ \A j \in 1..Len(Opportunities) :
                        Opportunities[j].is_positive_ev =>
                            RatLe(Opportunities[j].ev_percent, Opportunities[i].ev_percent)

(* C30: paper-trade EV matches its stake.  The EV_Dollars of every row     *)
(* written is (true_prob - kalshi_price/100) * Bet_Amount, to the cent.    *)
C30_EvAtOwnStake ==
    \A t \in 1..Len(PaperTrades) :
        \A i \in OpportunitiesOf(PaperTrades[t]) :
            PaperTrades[t].EV_Dollars =
                FormatPlaces(RatMul(RatSub(Opportunities[i].true_prob,
                                           Rat(PaperTrades[t].Kalshi_Price, 100)),
                                    Int2Rat(PaperTrades[t].Bet_Amount)), 2)

---------------------------------------------------------------------------
(* Properties of grading coverage, checked under SpecGrade.                *)

(* the rows of a file that quote one of the games and have no result yet   *)
PendingRows(file, game_ids) ==
    {i \in 1..Len(Rows(file)) :
        /\ Rows(file)[i].game_id \in game_ids
        /\ ResultCell(Rows(file)[i]).isNone}

(* C26: every quote of a finished game gets graded.  After a pass that was *)
(* given the final result of the game, every row of that game that was     *)
(* pending before the pass, in the sportsbook file and in the Kalshi file, *)
(* has a result.                                                           *)
C26_FinishedGameGraded ==
    [][(/\ grading_pass'.status = "STATUS_FINAL"
        /\ ~grading_pass'.away_score.isNone
        /\ ~grading_pass'.home_score.isNone)
       => /\ \A i \in PendingRows(sportsbook_odds_xlsx, {GradeGameId}) :
                ~ResultCell(Rows(sportsbook_odds_xlsx')[i]).isNone
          /\ \A i \in PendingRows(kalshi_all_markets_xlsx, {GamePart}) :
                ~ResultCell(Rows(kalshi_all_markets_xlsx')[i]).isNone]_vars

---------------------------------------------------------------------------
(* Properties of extract_games_from_markets, checked under SpecUnit.       *)

(* the (game_id, team) pairs of the tickers with at least three parts      *)
TickerKeys(markets) ==
    {<<markets[i].ticker[2], markets[i].ticker[3]>> :
        i \in {j \in 1..Len(markets) : Len(markets[j].ticker) >= 3}}

(* the (game_id, team) entries of a mapping of games                       *)
GameEntries(games) ==
    UNION {{<<games[g].game_id, games[g].teams[t].team>> :
                t \in 1..Len(games[g].teams)} : g \in 1..Len(games)}

(* C27: extract_games_from_markets groups all markets.  For any list of    *)
(* markets the function returns a mapping; it has an entry for every       *)
(* (game_id, team) of a ticker with at least three parts, holding the      *)
(* prices of a market with that ticker, and no other entry; for an empty   *)
(* list the mapping is empty.                                              *)
C27_GroupsAllMarkets ==
    codec_call.fn = "extract_games_from_markets" =>
        LET markets == codec_call.args
            ret     == codec_ret.value
        IN  /\ ~ret.isNone
            /\ GameEntries(ret.val) = TickerKeys(markets)
            /\ \A g \in 1..Len(ret.val) : \A t \in 1..Len(ret.val[g].teams) :
                  \E i \in 1..Len(markets) :
                     /\ Len(markets[i].ticker) >= 3
                     /\ markets[i].ticker[2] = ret.val[g].game_id
                     /\ markets[i].ticker[3] = ret.val[g].teams[t].team
                     /\ ret.val[g].teams[t].data.yes_ask = markets[i].yes_ask

---------------------------------------------------------------------------
(* Properties of the signs of calculate_ev, checked under SpecCodec.       *)

(* C29: sign agreement of the EV outputs.  For every call of calculate_ev  *)
(* with a positive bet_amount and a price from 1 to 99 cents,              *)
(* is_positive_ev holds if and only if edge > 0, and if and only if        *)
(* ev_percent > 0.                                                         *)
C29_SignAgreement ==
    (/\ codec_call.fn = "calculate_ev"
     /\ codec_call.args[1] \in 1..99
     /\ codec_call.args[2] > 0)
    => /\ codec_ret.raised = "none"
       /\ codec_ret.value.is_positive_ev <=> RatGt(codec_ret.value.edge, Zero)
       /\ codec_ret.value.is_positive_ev <=> RatGt(codec_ret.value.ev_percent, Zero)

(* a price of 50 cents against odds of +100: the edge is exactly 0 and    *)
(* none of the three signals is positive                                   *)
C29_Witness ==
    /\ codec_call.fn = "calculate_ev"
    /\ codec_call.args = <<50, DefaultBetAmount>>
    /\ codec_call.team_odds = 100
    /\ codec_ret.value.edge = Zero
    /\ ~codec_ret.value.is_positive_ev
    /\ codec_ret.value.ev_percent = Zero

=============================================================================
